---- MODULE Spec2Model ----
(***************************************************************************)
(* PayVoice policy and guardrail engine: the approval decision             *)
(* (checkAutoApproval), the budget ledger (daily_spending and              *)
(* updateDailySpending), and the /send route that ties them to the         *)
(* external transfer.                                                      *)
(*                                                                         *)
(* Money is counted in whole units.  A nullable column or an optional      *)
(* row is a set with at most one element: {} is null / absent, {x} is x.  *)
(* Every supabase call is one step; it may return a storage error.        *)
(***************************************************************************)
EXTENDS Integers, FiniteSets, Sequences, TLC

\* ------------------------------------------------------------------ bounds
MaxMoney == 2
MaxCalls == 3
MaxFaults == 1
DecideFaults == 3
StartDay == 10
MaxAlerts == 3
MaxTicks == 3

\* ----------------------------------------------------- program constants
DefaultAutoApproveLimit == 5
DefaultDailyLimit == 100
DefaultWeeklyLimit == 500
DefaultLowBalanceThreshold == 10
SummaryDays == 7
TopCount == 5
RATE_LIMIT_WINDOW == 60 * 1000
MAX_REQUESTS_PER_WINDOW == 30

Users == {"u1"}
Contacts == {"c1"}
Procs == 1..MaxCalls
SendProcs == {1, 2}

Money == 0..MaxMoney
Amounts == 1..MaxMoney

VARIABLES
  user_policies,      \* rows of table user_policies
  trusted_contacts,   \* rows of table trusted_contacts
  daily_spending,     \* rows of table daily_spending
  alerts,             \* rows of table alerts
  transactions,       \* rows of table transactions, in insertion order
  today,              \* the current calendar day (a day number)
  faultsLeft,         \* storage / network errors the environment may still raise
  req,                \* per request / call: position and local variables
  requestCounts,      \* the rate limiter's Map: phone -> { count, windowStart }
  now,                \* Date.now(), in milliseconds
  admitted            \* requests the rate limiter passed on, at the last two instants

vars == <<user_policies, trusted_contacts, daily_spending, alerts,
          transactions, today, faultsLeft, req, requestCounts, now, admitted>>

\* The rate limiter's state; the handlers behind it leave it alone.
rateVars == <<requestCounts, now, admitted>>

RatePhones == {"p1"}

\* The process has just started: the Map is empty.
RateInit ==
  /\ requestCounts = [phone \in RatePhones |-> {}]
  /\ now = 0
  /\ admitted = [phone \in RatePhones |-> [prev |-> 0, cur |-> 0, last |-> "none"]]

\* ------------------------------------------------------------- helpers
\* A call returns an error (while the environment may still raise one) / returns normally.
Fault == faultsLeft > 0 /\ faultsLeft' = faultsLeft - 1
NoFault == faultsLeft' = faultsLeft

Some(s) == CHOOSE x \in s : TRUE

\* JavaScript truthiness of a nullable number: null and 0 are falsy.
Truthy(opt) == opt # {} /\ Some(opt) # 0

\* The default row created by INSERT INTO user_policies (user_id).
DefaultPolicy(u) ==
  [user_id |-> u,
   auto_approve_limit |-> DefaultAutoApproveLimit,
   daily_spending_limit |-> DefaultDailyLimit,
   weekly_spending_limit |-> DefaultWeeklyLimit,
   low_balance_alert_threshold |-> DefaultLowBalanceThreshold]

PolicyRows(u) == {r \in user_policies : r.user_id = u}
TrustRows(u, c) == {r \in trusted_contacts : r.user_id = u /\ r.contact_id = c}

\* Mutant: the ledger is read by date alone, without .eq('user_id', userId).
DailyRowsOfAnyUser(u, d) == {r \in daily_spending : r.date = d}

DailyRows(u, d) == {r \in daily_spending : r.user_id = u /\ r.date = d}

RECURSIVE SumTotals(_)
SumTotals(rows) ==
  IF rows = {} THEN 0
  ELSE LET r == Some(rows) IN r.total_spent + SumTotals(rows \ {r})

\* Monday of the week of day d; d % 7 is getDay() (0 = Sunday).
WeekStart(d) == IF d % 7 = 0 THEN d - 6 ELSE d - (d % 7) + 1

\* What a successful read of today's total returns.
TodayTotal(u, d) ==
  IF DailyRows(u, d) = {} THEN 0 ELSE Some(DailyRows(u, d)).total_spent

\* What a successful read of the week's total returns.
WeekTotal(u, d) ==
  SumTotals({r \in daily_spending : r.user_id = u /\ r.date >= WeekStart(d)})

\* -------------------------------------------------- the approval decision
BudgetStatus(policy, todaySpent, weekSpent) ==
  [todaySpent |-> todaySpent,
   weekSpent |-> weekSpent,
   dailyLimit |-> policy.daily_spending_limit,
   weeklyLimit |-> policy.weekly_spending_limit,
   remainingToday |-> policy.daily_spending_limit - todaySpent,
   remainingWeek |-> policy.weekly_spending_limit - weekSpent]

\* Mutant: the result starts with neither flag set.
BaseResultUnset(policy, todaySpent, weekSpent) ==
  [canAutoApprove |-> FALSE,
   requiresConfirmation |-> FALSE,
   reason |-> "",
   budgetExceeded |-> "none",
   budgetStatus |-> {BudgetStatus(policy, todaySpent, weekSpent)}]

BaseResult(policy, todaySpent, weekSpent) ==
  [canAutoApprove |-> FALSE,
   requiresConfirmation |-> TRUE,
   reason |-> "",
   budgetExceeded |-> "none",
   budgetStatus |-> {BudgetStatus(policy, todaySpent, weekSpent)}]

\* const effectiveLimit = trustedContact.auto_approve_limit || policy.auto_approve_limit
EffectiveLimit(policy, trustedContact) ==
  IF Truthy(trustedContact.auto_approve_limit)
  THEN Some(trustedContact.auto_approve_limit)
  ELSE policy.auto_approve_limit

\* Mutant: the trust test and the auto-approve test come before the budget tests.
DecideTrustFirst(policy, trusted, todaySpent, weekSpent, amountNum) ==
  LET result == BaseResult(policy, todaySpent, weekSpent) IN
  IF trusted # {} /\ amountNum <= EffectiveLimit(policy, Some(trusted))
  THEN [result EXCEPT !.canAutoApprove = TRUE, !.requiresConfirmation = FALSE,
                      !.reason = "within_trusted_limit"]
  ELSE IF todaySpent + amountNum > policy.daily_spending_limit
  THEN [result EXCEPT !.reason = "daily_limit_exceeded", !.budgetExceeded = "daily"]
  ELSE IF weekSpent + amountNum > policy.weekly_spending_limit
  THEN [result EXCEPT !.reason = "weekly_limit_exceeded", !.budgetExceeded = "weekly"]
  ELSE IF trusted = {}
  THEN [result EXCEPT !.reason = "not_trusted"]
  ELSE [result EXCEPT !.reason = "exceeds_auto_approve_limit"]

\* Mutant: the weekly test comes before the daily test.
DecideWeeklyFirst(policy, trusted, todaySpent, weekSpent, amountNum) ==
  LET result == BaseResult(policy, todaySpent, weekSpent) IN
  IF weekSpent + amountNum > policy.weekly_spending_limit
  THEN [result EXCEPT !.reason = "weekly_limit_exceeded", !.budgetExceeded = "weekly"]
  ELSE IF todaySpent + amountNum > policy.daily_spending_limit
  THEN [result EXCEPT !.reason = "daily_limit_exceeded", !.budgetExceeded = "daily"]
  ELSE IF trusted = {}
  THEN [result EXCEPT !.reason = "not_trusted"]
  ELSE IF amountNum <= EffectiveLimit(policy, Some(trusted))
  THEN [result EXCEPT !.canAutoApprove = TRUE, !.requiresConfirmation = FALSE,
                      !.reason = "within_trusted_limit"]
  ELSE [result EXCEPT !.reason = "exceeds_auto_approve_limit"]

\* Mutant: the trust test is dropped, the policy's limit applies to everyone.
DecideNoTrustTest(policy, trusted, todaySpent, weekSpent, amountNum) ==
  LET result == BaseResult(policy, todaySpent, weekSpent) IN
  IF todaySpent + amountNum > policy.daily_spending_limit
  THEN [result EXCEPT !.reason = "daily_limit_exceeded", !.budgetExceeded = "daily"]
  ELSE IF weekSpent + amountNum > policy.weekly_spending_limit
  THEN [result EXCEPT !.reason = "weekly_limit_exceeded", !.budgetExceeded = "weekly"]
  ELSE IF amountNum <= (IF trusted = {} THEN policy.auto_approve_limit
                        ELSE EffectiveLimit(policy, Some(trusted)))
  THEN [result EXCEPT !.canAutoApprove = TRUE, !.requiresConfirmation = FALSE,
                      !.reason = "within_trusted_limit"]
  ELSE IF trusted = {}
  THEN [result EXCEPT !.reason = "not_trusted"]
  ELSE [result EXCEPT !.reason = "exceeds_auto_approve_limit"]

\* checkAutoApproval's decision logic, checks 1 to 4 in the code's order.
Decide(policy, trusted, todaySpent, weekSpent, amountNum) ==
  LET result == BaseResult(policy, todaySpent, weekSpent) IN
  IF todaySpent + amountNum > policy.daily_spending_limit
  THEN [result EXCEPT !.reason = "daily_limit_exceeded", !.budgetExceeded = "daily"]
  ELSE IF weekSpent + amountNum > policy.weekly_spending_limit
  THEN [result EXCEPT !.reason = "weekly_limit_exceeded", !.budgetExceeded = "weekly"]
  ELSE IF trusted = {}
  THEN [result EXCEPT !.reason = "not_trusted"]
  ELSE IF amountNum <= EffectiveLimit(policy, Some(trusted))
  THEN [result EXCEPT !.canAutoApprove = TRUE, !.requiresConfirmation = FALSE,
                      !.reason = "within_trusted_limit"]
  ELSE [result EXCEPT !.reason = "exceeds_auto_approve_limit"]

\* The decision returned by checkAutoApproval's catch block.
FailClosed ==
  [canAutoApprove |-> FALSE,
   requiresConfirmation |-> TRUE,
   reason |-> "could_not_verify",
   budgetExceeded |-> "none",
   budgetStatus |-> {}]

\* ------------------------------------------------------ request records
\* A request that has not started.  policyErr .. weekErr say which read
\* returned a storage error; storedPolicy, storedTrust, ledgerToday and
\* ledgerWeek are what the tables held when the engine read (or failed to
\* read) them.
NewReq ==
  [op |-> "none", pc |-> "idle",
   user |-> "u1", contact |-> "c1", amount |-> 0, confirmed |-> FALSE,
   policy |-> {}, trusted |-> {}, todaySpent |-> 0, weekSpent |-> 0,
   decision |-> {}, existing |-> {}, txResult |-> "none", response |-> "none",
   wrote |-> FALSE, lowBalance |-> "none",
   policyErr |-> FALSE, trustErr |-> FALSE, todayErr |-> FALSE, weekErr |-> FALSE,
   writeErr |-> FALSE, skew |-> 0, limit |-> {}, balance |-> {},
   ids |-> {}, seen |-> 0, updates |-> {}, summary |-> {},
   dailyData |-> {}, txData |-> <<>>, markAsRead |-> FALSE, returned |-> {},
   storedPolicy |-> {}, storedTrust |-> {}, ledgerToday |-> 0, ledgerWeek |-> 0]

\* The policy the user has: the stored row, or the defaults a first access creates.
PolicyOf(u) == IF PolicyRows(u) = {} THEN {DefaultPolicy(u)} ELSE PolicyRows(u)

\* Mutant: the /send handler never asks for confirmation.
ClassifyNoConfirm(decision, confirmed) ==
  IF decision.budgetExceeded # "none" THEN "blocked" ELSE "execute"

\* The /send handler's use of the decision: block, ask, or go on to the transfer.
Classify(decision, confirmed) ==
  IF decision.budgetExceeded # "none" THEN "blocked"
  ELSE IF decision.requiresConfirmation /\ ~confirmed THEN "needs_confirmation"
  ELSE "execute"

\* checkAutoApproval returns d to its caller: a direct call ends, the /send
\* handler classifies the decision at once (no await in between).
Return(r, d) ==
  IF r.op = "check"
  THEN [r EXCEPT !.decision = {d}, !.pc = "done"]
  ELSE LET c == Classify(d, r.confirmed) IN
       IF c = "execute"
       THEN [r EXCEPT !.decision = {d}, !.pc = "transfer"]
       ELSE [r EXCEPT !.decision = {d}, !.pc = "done", !.response = c]

\* ------------------------------------------------- checkAutoApproval steps
\* getUserPolicy's select inside checkAutoApproval.
CheckPolicySelect(p) ==
  LET r == req[p] IN
  /\ r.pc = "chk_pol_select"
  /\ \/ /\ PolicyRows(r.user) # {}
        /\ NoFault
        /\ req' = [req EXCEPT ![p] = [r EXCEPT !.policy = PolicyRows(r.user),
                                               !.storedPolicy = PolicyOf(r.user),
                                               !.pc = "chk_trust"]]
     \/ /\ PolicyRows(r.user) = {}
        /\ NoFault
        /\ req' = [req EXCEPT ![p] = [r EXCEPT !.storedPolicy = PolicyOf(r.user),
                                               !.pc = "chk_pol_insert"]]
     \/ /\ Fault
        /\ req' = [req EXCEPT ![p] =
                  Return([r EXCEPT !.policyErr = TRUE,
                                   !.storedPolicy = PolicyOf(r.user),
                                   !.storedTrust = TrustRows(r.user, r.contact),
                                   !.ledgerToday = TodayTotal(r.user, today),
                                   !.ledgerWeek = WeekTotal(r.user, today)],
                         FailClosed)]
  /\ UNCHANGED rateVars
  /\ UNCHANGED <<user_policies, trusted_contacts, daily_spending, alerts,
                 transactions, today>>

\* getUserPolicy's insert of the default row inside checkAutoApproval; the
\* insert fails on a storage error and on UNIQUE(user_id).
CheckPolicyInsert(p) ==
  LET r == req[p] IN
  /\ r.pc = "chk_pol_insert"
  /\ \/ /\ PolicyRows(r.user) = {}
        /\ NoFault
        /\ user_policies' = user_policies \cup {DefaultPolicy(r.user)}
        /\ req' = [req EXCEPT ![p] = [r EXCEPT !.policy = {DefaultPolicy(r.user)},
                                               !.pc = "chk_trust"]]
     \/ /\ (PolicyRows(r.user) # {} /\ NoFault) \/ Fault
        /\ UNCHANGED user_policies
        /\ req' = [req EXCEPT ![p] =
                     Return([r EXCEPT !.policyErr = TRUE,
                                      !.storedPolicy = PolicyOf(r.user),
                                      !.storedTrust = TrustRows(r.user, r.contact),
                                      !.ledgerToday = TodayTotal(r.user, today),
                                      !.ledgerWeek = WeekTotal(r.user, today)],
                            FailClosed)]
  /\ UNCHANGED rateVars
  /\ UNCHANGED <<trusted_contacts, daily_spending, alerts, transactions, today>>

\* isTrustedContact: the row, null when there is none, and null on an error.
CheckTrust(p) ==
  LET r == req[p] IN
  /\ r.pc = "chk_trust"
  /\ \/ NoFault /\
        req' = [req EXCEPT ![p] = [r EXCEPT !.trusted = TrustRows(r.user, r.contact),
                                            !.storedTrust = TrustRows(r.user, r.contact),
                                            !.pc = "chk_today"]]
     \/ Fault /\
        req' = [req EXCEPT ![p] = [r EXCEPT !.trusted = {},
                                            !.trustErr = TRUE,
                                            !.storedTrust = TrustRows(r.user, r.contact),
                                            !.pc = "chk_today"]]
  /\ UNCHANGED rateVars
  /\ UNCHANGED <<user_policies, trusted_contacts, daily_spending, alerts,
                 transactions, today>>

\* getTodaySpending: the row's total, 0 when there is none, and 0 on an error.
CheckToday(p) ==
  LET r == req[p] IN
  /\ r.pc = "chk_today"
  /\ \/ NoFault /\
        req' = [req EXCEPT ![p] = [r EXCEPT !.todaySpent = TodayTotal(r.user, today),
                                            !.ledgerToday = TodayTotal(r.user, today),
                                            !.pc = "chk_week"]]
     \/ Fault /\
        req' = [req EXCEPT ![p] = [r EXCEPT !.todaySpent = 0,
                                            !.todayErr = TRUE,
                                            !.ledgerToday = TodayTotal(r.user, today),
                                            !.pc = "chk_week"]]
  /\ UNCHANGED rateVars
  /\ UNCHANGED <<user_policies, trusted_contacts, daily_spending, alerts,
                 transactions, today>>

\* getWeekSpending (the sum, 0 on an error), then the decision logic.
CheckWeek(p) ==
  LET r == req[p] IN
  /\ r.pc = "chk_week"
  /\ \/ LET w == WeekTotal(r.user, today) IN
        NoFault /\
        req' = [req EXCEPT ![p] =
                  Return([r EXCEPT !.weekSpent = w, !.ledgerWeek = w],
                         Decide(Some(r.policy), r.trusted, r.todaySpent, w, r.amount))]
     \/ Fault /\
        req' = [req EXCEPT ![p] =
                  Return([r EXCEPT !.weekSpent = 0, !.weekErr = TRUE,
                                   !.ledgerWeek = WeekTotal(r.user, today)],
                         Decide(Some(r.policy), r.trusted, r.todaySpent, 0, r.amount))]
  /\ UNCHANGED rateVars
  /\ UNCHANGED <<user_policies, trusted_contacts, daily_spending, alerts,
                 transactions, today>>

\* ------------------------------------- specification of a single decision
\* A direct call checkAutoApproval(u, c, amount).
CheckStart(p) ==
  /\ req[p].pc = "idle"
  /\ \E u \in Users, c \in Contacts, a \in Amounts :
       req' = [req EXCEPT ![p] = [NewReq EXCEPT !.op = "check", !.pc = "chk_pol_select",
                                                !.user = u, !.contact = c, !.amount = a]]
  /\ UNCHANGED rateVars
  /\ UNCHANGED <<user_policies, trusted_contacts, daily_spending, alerts,
                 transactions, today, faultsLeft>>

\* The stored states a decision can meet: any policy (or none yet), any trust
\* entry (or none), a record for today and one for the day before.
PolicyStates(u) ==
  {{}} \cup
  {{[user_id |-> u, auto_approve_limit |-> a, daily_spending_limit |-> d,
     weekly_spending_limit |-> w,
     low_balance_alert_threshold |-> DefaultLowBalanceThreshold]} :
     a \in Money, d \in Money, w \in Money}

TrustStates(u, c) ==
  {{}} \cup
  {{[user_id |-> u, contact_id |-> c, auto_approve_limit |-> l]} :
     l \in {{}} \cup {{m} : m \in Money}}

DailyStates(u, d) ==
  {{}} \cup
  {{[user_id |-> u, date |-> d, total_spent |-> t, transaction_count |-> n]} :
     t \in Amounts, n \in 1..1}

InitDecide ==
  /\ today = StartDay
  /\ faultsLeft = DecideFaults
  /\ user_policies \in PolicyStates("u1")
  /\ trusted_contacts \in TrustStates("u1", "c1")
  /\ \E a \in DailyStates("u1", StartDay), b \in DailyStates("u1", StartDay - 1) :
       daily_spending = a \cup b
  /\ alerts = {}
  /\ transactions = <<>>
  /\ req = [p \in Procs |-> NewReq]
  /\ RateInit

NextDecide ==
  \/ CheckStart(1)
  \/ CheckPolicySelect(1)
  \/ CheckPolicyInsert(1)
  \/ CheckTrust(1)
  \/ CheckToday(1)
  \/ CheckWeek(1)

SpecDecide == InitDecide /\ [][NextDecide]_vars

\* ------------------------------------------------ updateDailySpending steps
\* Where updateDailySpending returns to: a direct call ends, the /send
\* handler goes on to log the completed transaction.
AfterUpdate(r) == IF r.op = "send" THEN "log_completed" ELSE "done"

\* The select of today's row; on an error `existing` is null, as when there
\* is no row.
UpdRead(p) ==
  LET r == req[p] IN
  /\ r.pc = "upd_read"
  /\ \/ NoFault /\
        req' = [req EXCEPT ![p] = [r EXCEPT !.existing = DailyRows(r.user, today),
                                            !.pc = "upd_write"]]
     \/ Fault /\
        req' = [req EXCEPT ![p] = [r EXCEPT !.existing = {},
                                            !.writeErr = TRUE,
                                            !.pc = "upd_write"]]
  /\ UNCHANGED rateVars
  /\ UNCHANGED <<user_policies, trusted_contacts, daily_spending, alerts,
                 transactions, today>>

\* The row written by the update branch: existing's values plus this amount.
UpdatedRow(existing, amountNum) ==
  [existing EXCEPT !.total_spent = existing.total_spent + amountNum,
                   !.transaction_count = existing.transaction_count + 1]

\* The update of the row read (by id) or the insert of a new row.  The
\* insert fails on UNIQUE(user_id, date); no error is looked at.
UpdWrite(p) ==
  LET r == req[p] IN
  /\ r.pc = "upd_write"
  /\ \/ /\ r.existing # {}
        /\ NoFault
        /\ LET e == Some(r.existing)
               cur == DailyRows(e.user_id, e.date)
           IN daily_spending' =
                (daily_spending \ cur) \cup {UpdatedRow(e, r.amount)}
        /\ req' = [req EXCEPT ![p] = [r EXCEPT !.wrote = TRUE, !.pc = AfterUpdate(r)]]
     \/ /\ r.existing = {}
        /\ DailyRows(r.user, today) = {}
        /\ NoFault
        /\ daily_spending' = daily_spending \cup
             {[user_id |-> r.user, date |-> today,
               total_spent |-> r.amount, transaction_count |-> 1]}
        /\ req' = [req EXCEPT ![p] = [r EXCEPT !.wrote = TRUE, !.pc = AfterUpdate(r)]]
     \/ /\ r.existing = {}
        /\ DailyRows(r.user, today) # {}
        /\ NoFault
        /\ UNCHANGED daily_spending
        /\ req' = [req EXCEPT ![p] = [r EXCEPT !.pc = AfterUpdate(r)]]
     \/ /\ Fault
        /\ UNCHANGED daily_spending
        /\ req' = [req EXCEPT ![p] = [r EXCEPT !.writeErr = TRUE, !.pc = AfterUpdate(r)]]
  /\ UNCHANGED rateVars
  /\ UNCHANGED <<user_policies, trusted_contacts, alerts, transactions, today>>

\* ------------------------------------ specification of concurrent ledger calls
\* The amounts a direct caller may pass: updateDailySpending applies
\* parseFloat and nothing else, so a negative amount is taken as it is.
LedgerAmounts == Amounts \cup {-1}

\* A direct call updateDailySpending(u, amount).
RecordSpendStart(p) ==
  /\ req[p].pc = "idle"
  /\ \E u \in Users, a \in LedgerAmounts :
       req' = [req EXCEPT ![p] = [NewReq EXCEPT !.op = "recordSpend", !.pc = "upd_read",
                                                !.user = u, !.amount = a]]
  /\ UNCHANGED rateVars
  /\ UNCHANGED <<user_policies, trusted_contacts, daily_spending, alerts,
                 transactions, today, faultsLeft>>

InitLedger ==
  /\ today = StartDay
  /\ faultsLeft = MaxFaults
  /\ user_policies = {}
  /\ trusted_contacts = {}
  /\ daily_spending \in DailyStates("u1", StartDay - 1)
  /\ alerts = {}
  /\ transactions = <<>>
  /\ req = [p \in Procs |-> NewReq]
  /\ RateInit

NextLedger ==
  \E p \in Procs :
    \/ RecordSpendStart(p)
    \/ UpdRead(p)
    \/ UpdWrite(p)

SpecLedger == InitLedger /\ [][NextLedger]_vars

\* ------------------------------------------------------- the /send route
\* The request passed validation, the sender and the contact were found and
\* the balance covers the amount: the handler calls checkAutoApproval.
SendStart(p) ==
  /\ req[p].pc = "idle"
  /\ \E u \in Users, c \in Contacts, a \in Amounts, cf \in BOOLEAN :
       req' = [req EXCEPT ![p] = [NewReq EXCEPT !.op = "send", !.pc = "chk_pol_select",
                                                !.user = u, !.contact = c,
                                                !.amount = a, !.confirmed = cf]]
  /\ UNCHANGED rateVars
  /\ UNCHANGED <<user_policies, trusted_contacts, daily_spending, alerts,
                 transactions, today, faultsLeft>>

\* The request is answered 400 / 404 before the policy check (missing field,
\* bad amount, unknown sender or contact, insufficient balance).
SendReject(p) ==
  /\ req[p].pc = "idle"
  /\ \E u \in Users, c \in Contacts, a \in Amounts, cf \in BOOLEAN :
       req' = [req EXCEPT ![p] = [NewReq EXCEPT !.op = "send", !.pc = "done",
                                                !.user = u, !.contact = c,
                                                !.amount = a, !.confirmed = cf,
                                                !.response = "rejected"]]
  /\ UNCHANGED rateVars
  /\ UNCHANGED <<user_policies, trusted_contacts, daily_spending, alerts,
                 transactions, today, faultsLeft>>

\* Mutant: the handler commits the spend whatever the transfer reported.
AfterTransferAlwaysCommit(result) ==
  IF result = "threw" THEN "done" ELSE "upd_read"

\* Where the handler goes after sendUSDCWithConfirmation: on success to
\* updateDailySpending, on txResult.success = false to the failed-transaction
\* log, and to the catch block when the call threw.
AfterTransfer(result) ==
  IF result = "success" THEN "upd_read"
  ELSE IF result = "failed" THEN "log_failed"
  ELSE "done"

\* circleService.sendUSDCWithConfirmation: the external transfer.
Transfer(p) ==
  LET r == req[p] IN
  /\ r.pc = "transfer"
  /\ \E result \in {"success", "failed", "threw"} :
       /\ IF result = "threw" THEN Fault ELSE NoFault
       /\ req' = [req EXCEPT ![p] =
                    [r EXCEPT !.txResult = result,
                              !.pc = AfterTransfer(result),
                              !.response = IF result = "threw" THEN "error500"
                                           ELSE "none"]]
  /\ UNCHANGED rateVars
  /\ UNCHANGED <<user_policies, trusted_contacts, daily_spending, alerts,
                 transactions, today>>

TxRow(r, status) ==
  [user_id |-> r.user, type |-> "send", amount |-> r.amount,
   recipient_name |-> {r.contact}, status |-> status, date |-> today]

\* logTransactionWithDetails(status: 'failed'), then the 500 answer.
LogFailed(p) ==
  LET r == req[p] IN
  /\ r.pc = "log_failed"
  /\ \/ /\ NoFault
        /\ transactions' = Append(transactions, TxRow(r, "failed"))
        /\ req' = [req EXCEPT ![p] = [r EXCEPT !.pc = "done", !.response = "tx_failed"]]
     \/ /\ Fault
        /\ UNCHANGED transactions
        /\ req' = [req EXCEPT ![p] = [r EXCEPT !.pc = "done", !.response = "error500"]]
  /\ UNCHANGED rateVars
  /\ UNCHANGED <<user_policies, trusted_contacts, daily_spending, alerts, today>>

\* logTransactionWithDetails(status: 'completed'), then getBalance; either
\* may throw, which the handler's catch answers with 500.
LogCompleted(p) ==
  LET r == req[p] IN
  /\ r.pc = "log_completed"
  /\ \/ /\ NoFault
        /\ transactions' = Append(transactions, TxRow(r, "completed"))
        /\ req' = [req EXCEPT ![p] = [r EXCEPT !.pc = "lb_pol_select"]]
     \/ /\ Fault
        /\ transactions' = Append(transactions, TxRow(r, "completed"))
        /\ req' = [req EXCEPT ![p] = [r EXCEPT !.pc = "done", !.response = "error500"]]
     \/ /\ Fault
        /\ UNCHANGED transactions
        /\ req' = [req EXCEPT ![p] = [r EXCEPT !.pc = "done", !.response = "error500"]]
  /\ UNCHANGED rateVars
  /\ UNCHANGED <<user_policies, trusted_contacts, daily_spending, alerts, today>>

\* checkLowBalanceAlert returns `alert` ("null" or "alert"); a direct call
\* ends there.  In the /send handler the answer follows: building the response reads approvalCheck.budgetStatus
\* .remainingToday, which throws when the decision carries no budgetStatus.
Respond(r, alert) ==
  [r EXCEPT !.lowBalance = alert,
            !.pc = "done",
            !.response = IF r.op # "send" THEN "none"
                         ELSE IF Some(r.decision).budgetStatus = {}
                         THEN "error500" ELSE "success"]

\* checkLowBalanceAlert once the policy is known: balance <= threshold goes
\* on to look for today's alert, a higher balance returns null.
AfterThreshold(r, policy, balance) ==
  IF balance <= policy.low_balance_alert_threshold
  THEN [r EXCEPT !.pc = "lb_alert_select"]
  ELSE Respond(r, "null")

\* currentBalance: the argument of a direct call; in the /send handler the
\* result of getBalance, which may be any amount.
BalanceOf(r) == IF r.balance = {} THEN Money ELSE r.balance

\* getUserPolicy's select inside checkLowBalanceAlert; an error is caught and
\* null returned.
LowBalancePolicySelect(p) ==
  LET r == req[p] IN
  /\ r.pc = "lb_pol_select"
  /\ \/ /\ PolicyRows(r.user) # {}
        /\ NoFault
        /\ \E balance \in BalanceOf(r) :
             req' = [req EXCEPT ![p] =
                       AfterThreshold(r, Some(PolicyRows(r.user)), balance)]
     \/ /\ PolicyRows(r.user) = {}
        /\ NoFault
        /\ req' = [req EXCEPT ![p] = [r EXCEPT !.pc = "lb_pol_insert"]]
     \/ /\ Fault
        /\ req' = [req EXCEPT ![p] = Respond(r, "null")]
  /\ UNCHANGED rateVars
  /\ UNCHANGED <<user_policies, trusted_contacts, daily_spending, alerts,
                 transactions, today>>

\* getUserPolicy's insert inside checkLowBalanceAlert.
LowBalancePolicyInsert(p) ==
  LET r == req[p] IN
  /\ r.pc = "lb_pol_insert"
  /\ \/ /\ PolicyRows(r.user) = {}
        /\ NoFault
        /\ user_policies' = user_policies \cup {DefaultPolicy(r.user)}
        /\ \E balance \in BalanceOf(r) :
             req' = [req EXCEPT ![p] =
                       AfterThreshold(r, DefaultPolicy(r.user), balance)]
     \/ /\ (PolicyRows(r.user) # {} /\ NoFault) \/ Fault
        /\ UNCHANGED user_policies
        /\ req' = [req EXCEPT ![p] = Respond(r, "null")]
  /\ UNCHANGED rateVars
  /\ UNCHANGED <<trusted_contacts, daily_spending, alerts, transactions, today>>

\* The user's low_balance alerts created on day d or later.
LowBalanceAlerts(u, d) ==
  {a \in alerts : a.user_id = u /\ a.alert_type = "low_balance" /\ a.created_at >= d}

\* Mutant: the check for today's alert never finds one.
ExistingAlertNever(u, d) == FALSE

\* existingAlert of a select that returned: .single() gives the row when
\* exactly one matches and null otherwise.
ExistingAlert(u, d) == Cardinality(LowBalanceAlerts(u, d)) = 1

\* The select of today's low_balance alert; on an error data is null too.
LowBalanceAlertSelect(p) ==
  LET r == req[p] IN
  /\ r.pc = "lb_alert_select"
  /\ \/ /\ ExistingAlert(r.user, today)
        /\ NoFault
        /\ req' = [req EXCEPT ![p] = Respond(r, "null")]
     \/ /\ ~ExistingAlert(r.user, today)
        /\ NoFault
        /\ req' = [req EXCEPT ![p] = [r EXCEPT !.pc = "lb_alert_insert"]]
     \/ /\ Fault
        /\ req' = [req EXCEPT ![p] = [r EXCEPT !.pc = "lb_alert_insert"]]
  /\ UNCHANGED rateVars
  /\ UNCHANGED <<user_policies, trusted_contacts, daily_spending, alerts,
                 transactions, today>>

\* createAlert('low_balance'); an error is caught and null returned.
LowBalanceAlertInsert(p) ==
  LET r == req[p] IN
  /\ r.pc = "lb_alert_insert"
  /\ \/ /\ NoFault
        /\ alerts' = alerts \cup
             {[id |-> Cardinality(alerts) + 1, user_id |-> r.user,
               alert_type |-> "low_balance", is_read |-> FALSE, created_at |-> today]}
        /\ req' = [req EXCEPT ![p] = Respond(r, "alert")]
     \/ /\ Fault
        /\ UNCHANGED alerts
        /\ req' = [req EXCEPT ![p] = Respond(r, "null")]
  /\ UNCHANGED rateVars
  /\ UNCHANGED <<user_policies, trusted_contacts, daily_spending, transactions, today>>

\* --------------------------------- specification of concurrent /send requests
SendPolicyStates(u) ==
  {{}} \cup
  {{[user_id |-> u, auto_approve_limit |-> 1, daily_spending_limit |-> MaxMoney,
     weekly_spending_limit |-> MaxMoney, low_balance_alert_threshold |-> 1]}}

SendTrustStates(u, c) ==
  {{}} \cup
  {{[user_id |-> u, contact_id |-> c, auto_approve_limit |-> l]} :
     l \in {{}}}

InitSend ==
  /\ today = StartDay
  /\ faultsLeft = MaxFaults
  /\ user_policies \in SendPolicyStates("u1")
  /\ trusted_contacts \in SendTrustStates("u1", "c1")
  /\ daily_spending \in DailyStates("u1", StartDay)
  /\ alerts = {}
  /\ transactions = <<>>
  /\ req = [p \in Procs |-> NewReq]
  /\ RateInit

NextSend ==
  \E p \in SendProcs :
    \/ SendStart(p)
    \/ SendReject(p)
    \/ CheckPolicySelect(p)
    \/ CheckPolicyInsert(p)
    \/ CheckTrust(p)
    \/ CheckToday(p)
    \/ CheckWeek(p)
    \/ Transfer(p)
    \/ LogFailed(p)
    \/ UpdRead(p)
    \/ UpdWrite(p)
    \/ LogCompleted(p)
    \/ LowBalancePolicySelect(p)
    \/ LowBalancePolicyInsert(p)
    \/ LowBalanceAlertSelect(p)
    \/ LowBalanceAlertInsert(p)

SpecSend == InitSend /\ [][NextSend]_vars

\* --------------------------------------- specification of getWeekSpending
\* The server's local calendar date is the UTC date or one day off it,
\* depending on its time zone and the time of day.
ClockSkews == {-1, 0, 1}

\* weekStart as getWeekSpending computes it: getDay(), getDate() and
\* setDate() work on the local date, toISOString() gives the UTC date of
\* the instant they produce.
WeekStartAt(utcDay, localDay) == utcDay - (localDay - WeekStart(localDay))

\* A direct call getWeekSpending(u).
WeekSpendStart(p) ==
  /\ req[p].pc = "idle"
  /\ \E u \in Users, k \in ClockSkews :
       req' = [req EXCEPT ![p] = [NewReq EXCEPT !.op = "weekSpend", !.pc = "week_read",
                                                !.user = u, !.skew = k]]
  /\ UNCHANGED rateVars
  /\ UNCHANGED <<user_policies, trusted_contacts, daily_spending, alerts,
                 transactions, today, faultsLeft>>

\* The select of the rows with date >= weekStart and their sum; 0 on an error.
WeekSpendRead(p) ==
  LET r == req[p] IN
  /\ r.pc = "week_read"
  /\ \/ NoFault /\
        req' = [req EXCEPT ![p] =
                  [r EXCEPT !.weekSpent =
                              SumTotals({x \in daily_spending :
                                           /\ x.user_id = r.user
                                           /\ x.date >= WeekStartAt(today, today + r.skew)}),
                            !.pc = "done"]]
     \/ Fault /\
        req' = [req EXCEPT ![p] = [r EXCEPT !.weekSpent = 0, !.weekErr = TRUE,
                                            !.pc = "done"]]
  /\ UNCHANGED rateVars
  /\ UNCHANGED <<user_policies, trusted_contacts, daily_spending, alerts,
                 transactions, today>>

DailyRow(u, d, t) ==
  [user_id |-> u, date |-> d, total_spent |-> t, transaction_count |-> 1]

\* Any day of the week; records of the user on any of the eight days up to
\* today, and a record of another user.
InitWeek ==
  /\ today \in StartDay..(StartDay + 6)
  /\ faultsLeft = MaxFaults
  /\ user_policies = {}
  /\ trusted_contacts = {}
  /\ \E days \in SUBSET ((today - 7)..(today - 1)), t \in Money, o \in Money :
       daily_spending =
         {DailyRow("u1", d, 1) : d \in days}
         \cup (IF t > 0 THEN {DailyRow("u1", today, t)} ELSE {})
         \cup (IF o > 0 THEN {DailyRow("u2", today, o)} ELSE {})
  /\ alerts = {}
  /\ transactions = <<>>
  /\ req = [p \in Procs |-> NewReq]
  /\ RateInit

NextWeek ==
  \/ WeekSpendStart(1)
  \/ WeekSpendRead(1)

SpecWeek == InitWeek /\ [][NextWeek]_vars

\* ------------------------------------ specification of the trust registry
TrustContacts == {"c1", "c2"}

\* Three concurrent callers of the registry.
TrustProcs == {1, 2, 3}

\* autoApproveLimit as passed to addTrustedContact: null or a number.
TrustLimits == {{}} \cup {{m} : m \in Money}

TrustRow(id, u, c, limit) ==
  [id |-> id, user_id |-> u, contact_id |-> c, auto_approve_limit |-> limit]

\* Mutant: trusted_contacts without UNIQUE(user_id, contact_id).
TrustInsertNeverConflicts(u, c) == FALSE

\* UNIQUE(user_id, contact_id): an insert for a stored pair is refused.
TrustInsertConflicts(u, c) == TrustRows(u, c) # {}

\* Mutant: the delete filters on the user only.
TrustAfterDeleteOfUser(u, c) == {x \in trusted_contacts : x.user_id # u}

\* The table after DELETE ... WHERE user_id = u AND contact_id = c.
TrustAfterDelete(u, c) ==
  {x \in trusted_contacts : ~(x.user_id = u /\ x.contact_id = c)}

\* A call addTrustedContact(u, c, limit).
TrustAddStart(p) ==
  /\ req[p].pc = "idle"
  /\ \E u \in Users, c \in TrustContacts, l \in TrustLimits :
       req' = [req EXCEPT ![p] = [NewReq EXCEPT !.op = "trustAdd", !.pc = "trust_add",
                                                !.user = u, !.contact = c, !.limit = l]]
  /\ UNCHANGED rateVars
  /\ UNCHANGED <<user_policies, trusted_contacts, daily_spending, alerts,
                 transactions, today, faultsLeft>>

\* The insert of addTrustedContact; any error is thrown to the caller.
TrustAdd(p) ==
  LET r == req[p] IN
  /\ r.pc = "trust_add"
  /\ \/ /\ ~TrustInsertConflicts(r.user, r.contact)
        /\ NoFault
        /\ trusted_contacts' =
             trusted_contacts \cup {TrustRow(p, r.user, r.contact, r.limit)}
        /\ req' = [req EXCEPT ![p] =
                     [r EXCEPT !.storedTrust = TrustRows(r.user, r.contact),
                               !.response = "added", !.pc = "done"]]
     \/ /\ TrustInsertConflicts(r.user, r.contact)
        /\ NoFault
        /\ UNCHANGED trusted_contacts
        /\ req' = [req EXCEPT ![p] =
                     [r EXCEPT !.storedTrust = TrustRows(r.user, r.contact),
                               !.response = "error500", !.pc = "done"]]
     \/ /\ Fault
        /\ UNCHANGED trusted_contacts
        /\ req' = [req EXCEPT ![p] =
                     [r EXCEPT !.storedTrust = TrustRows(r.user, r.contact),
                               !.writeErr = TRUE,
                               !.response = "error500", !.pc = "done"]]
  /\ UNCHANGED rateVars
  /\ UNCHANGED <<user_policies, daily_spending, alerts, transactions, today>>

\* A call removeTrustedContact(u, c).
TrustRemoveStart(p) ==
  /\ req[p].pc = "idle"
  /\ \E u \in Users, c \in TrustContacts :
       req' = [req EXCEPT ![p] = [NewReq EXCEPT !.op = "trustRemove",
                                                !.pc = "trust_remove",
                                                !.user = u, !.contact = c]]
  /\ UNCHANGED rateVars
  /\ UNCHANGED <<user_policies, trusted_contacts, daily_spending, alerts,
                 transactions, today, faultsLeft>>

\* The delete of removeTrustedContact; deleting no row is not an error.
TrustRemove(p) ==
  LET r == req[p] IN
  /\ r.pc = "trust_remove"
  /\ \/ /\ NoFault
        /\ trusted_contacts' = TrustAfterDelete(r.user, r.contact)
        /\ req' = [req EXCEPT ![p] =
                     [r EXCEPT !.storedTrust = TrustRows(r.user, r.contact),
                               !.response = "removed", !.pc = "done"]]
     \/ /\ Fault
        /\ UNCHANGED trusted_contacts
        /\ req' = [req EXCEPT ![p] =
                     [r EXCEPT !.storedTrust = TrustRows(r.user, r.contact),
                               !.writeErr = TRUE,
                               !.response = "error500", !.pc = "done"]]
  /\ UNCHANGED rateVars
  /\ UNCHANGED <<user_policies, daily_spending, alerts, transactions, today>>

InitTrust ==
  /\ today = StartDay
  /\ faultsLeft = MaxFaults
  /\ user_policies = {}
  /\ \E stored \in SUBSET TrustContacts :
       trusted_contacts = {TrustRow(0, "u1", c, {}) : c \in stored}
  /\ daily_spending = {}
  /\ alerts = {}
  /\ transactions = <<>>
  /\ req = [p \in Procs |-> NewReq]
  /\ RateInit

NextTrust ==
  \E p \in TrustProcs :
    \/ TrustAddStart(p)
    \/ TrustAdd(p)
    \/ TrustRemoveStart(p)
    \/ TrustRemove(p)

SpecTrust == InitTrust /\ [][NextTrust]_vars

\* ------------------------- specification of sequential low-balance checks
\* A direct call checkLowBalanceAlert(u, balance), made when the calls before
\* it have returned; the calls are numbered in the order they are made.
LowBalanceStart(p) ==
  /\ \A q \in Procs : q < p => req[q].pc = "done"
  /\ req[p].pc = "idle"
  /\ \E u \in Users, b \in Money :
       req' = [req EXCEPT ![p] = [NewReq EXCEPT !.op = "lowBalance",
                                                !.pc = "lb_pol_select", !.user = u,
                                                !.balance = {b}]]
  /\ UNCHANGED rateVars
  /\ UNCHANGED <<user_policies, trusted_contacts, daily_spending, alerts,
                 transactions, today, faultsLeft>>

InitAlert ==
  /\ today = StartDay
  /\ faultsLeft = MaxFaults
  /\ user_policies \in SendPolicyStates("u1")
  /\ trusted_contacts = {}
  /\ daily_spending = {}
  /\ alerts = {}
  /\ transactions = <<>>
  /\ req = [p \in Procs |-> NewReq]
  /\ RateInit

NextAlert ==
  \E p \in Procs :
    \/ LowBalanceStart(p)
    \/ LowBalancePolicySelect(p)
    \/ LowBalancePolicyInsert(p)
    \/ LowBalanceAlertSelect(p)
    \/ LowBalanceAlertInsert(p)

SpecAlert == InitAlert /\ [][NextAlert]_vars

\* ------------------------------ specification of concurrent getUserPolicy
\* A direct call getUserPolicy(u).
GetPolicyStart(p) ==
  /\ req[p].pc = "idle"
  /\ \E u \in Users :
       req' = [req EXCEPT ![p] = [NewReq EXCEPT !.op = "getPolicy",
                                                !.pc = "pol_select", !.user = u]]
  /\ UNCHANGED rateVars
  /\ UNCHANGED <<user_policies, trusted_contacts, daily_spending, alerts,
                 transactions, today, faultsLeft>>

\* The select with .single(): the row is returned, no row (PGRST116) goes on
\* to the insert, any other error is thrown.
GetPolicySelect(p) ==
  LET r == req[p] IN
  /\ r.pc = "pol_select"
  /\ \/ /\ PolicyRows(r.user) # {}
        /\ NoFault
        /\ req' = [req EXCEPT ![p] = [r EXCEPT !.policy = PolicyRows(r.user),
                                               !.pc = "done"]]
     \/ /\ PolicyRows(r.user) = {}
        /\ NoFault
        /\ req' = [req EXCEPT ![p] = [r EXCEPT !.pc = "pol_insert"]]
     \/ /\ Fault
        /\ req' = [req EXCEPT ![p] = [r EXCEPT !.policyErr = TRUE, !.pc = "done"]]
  /\ UNCHANGED rateVars
  /\ UNCHANGED <<user_policies, trusted_contacts, daily_spending, alerts,
                 transactions, today>>

\* The insert of the default row; it is refused by UNIQUE(user_id) when a
\* row was stored meanwhile, and insertError is thrown.
GetPolicyInsert(p) ==
  LET r == req[p] IN
  /\ r.pc = "pol_insert"
  /\ \/ /\ PolicyRows(r.user) = {}
        /\ NoFault
        /\ user_policies' = user_policies \cup {DefaultPolicy(r.user)}
        /\ req' = [req EXCEPT ![p] = [r EXCEPT !.policy = {DefaultPolicy(r.user)},
                                               !.pc = "done"]]
     \/ /\ (PolicyRows(r.user) # {} /\ NoFault) \/ Fault
        /\ UNCHANGED user_policies
        /\ req' = [req EXCEPT ![p] = [r EXCEPT !.policyErr = TRUE, !.pc = "done"]]
  /\ UNCHANGED rateVars
  /\ UNCHANGED <<trusted_contacts, daily_spending, alerts, transactions, today>>

InitPolicy ==
  /\ today = StartDay
  /\ faultsLeft = MaxFaults
  /\ user_policies \in SendPolicyStates("u1")
  /\ trusted_contacts = {}
  /\ daily_spending = {}
  /\ alerts = {}
  /\ transactions = <<>>
  /\ req = [p \in Procs |-> NewReq]
  /\ RateInit

NextPolicy ==
  \E p \in Procs :
    \/ GetPolicyStart(p)
    \/ GetPolicySelect(p)
    \/ GetPolicyInsert(p)

SpecPolicy == InitPolicy /\ [][NextPolicy]_vars


\* --------------------------------------- specification of markAlertsAsRead
AlertUsers == {"u1", "u2"}
MarkProcs == {1, 2}

\* alertIds as a caller passes it: null ({}), or a list of ids ({ids}), which
\* may be the empty list.
MarkIdLists == {{}} \cup {{ids} : ids \in {{}, {1}, {1, 2}}}

\* The rows the update matches: .eq('user_id', userId), and .in('id', alertIds)
\* only when `alertIds && alertIds.length > 0`.
MarkTargets(userId, alertIds) ==
  {a \in alerts : /\ a.user_id = userId
                  /\ (alertIds # {} /\ Some(alertIds) # {}) => a.id \in Some(alertIds)}

\* A direct call markAlertsAsRead(u, alertIds).
MarkReadStart(p) ==
  /\ req[p].pc = "idle"
  /\ \E u \in AlertUsers, l \in MarkIdLists :
       req' = [req EXCEPT ![p] = [NewReq EXCEPT !.op = "markRead", !.pc = "mark_update",
                                                !.user = u, !.ids = l]]
  /\ UNCHANGED rateVars
  /\ UNCHANGED <<user_policies, trusted_contacts, daily_spending, alerts,
                 transactions, today, faultsLeft>>

\* The update({ is_read: true }); an error is caught and logged.
MarkRead(p) ==
  LET r == req[p]
      targets == MarkTargets(r.user, r.ids)
  IN
  /\ r.pc = "mark_update"
  /\ \/ /\ NoFault
        /\ alerts' = (alerts \ targets) \cup {[a EXCEPT !.is_read = TRUE] : a \in targets}
     \/ /\ Fault
        /\ UNCHANGED alerts
  /\ req' = [req EXCEPT ![p] = [r EXCEPT !.pc = "done"]]
  /\ UNCHANGED rateVars
  /\ UNCHANGED <<user_policies, trusted_contacts, daily_spending, transactions, today>>

AlertRow(id, u, read) ==
  [id |-> id, user_id |-> u, alert_type |-> "low_balance", is_read |-> read,
   created_at |-> StartDay]

\* Alerts 1 .. MaxAlerts are stored, each of either user, read or unread.
InitMarkRead ==
  /\ today = StartDay
  /\ faultsLeft = MaxFaults
  /\ user_policies = {}
  /\ trusted_contacts = {}
  /\ daily_spending = {}
  /\ \E owner \in [1..MaxAlerts -> AlertUsers], read \in [1..MaxAlerts -> BOOLEAN] :
       alerts = {AlertRow(i, owner[i], read[i]) : i \in 1..MaxAlerts}
  /\ transactions = <<>>
  /\ req = [p \in Procs |-> NewReq]
  /\ RateInit

NextMarkRead ==
  \E p \in MarkProcs :
    \/ MarkReadStart(p)
    \/ MarkRead(p)

SpecMarkRead == InitMarkRead /\ [][NextMarkRead]_vars


\* ------------------------------------------------------ getSpendingSummary
\* Math.round(a / b) for a >= 0 and b > 0.
RoundDiv(a, b) == (2 * a + b) \div (2 * b)

\* A sequence of <<key, item>> pairs with e put behind the pairs whose key
\* is not smaller: one step of a stable sort into descending order.
RECURSIVE InsertDesc(_, _)
InsertDesc(e, s) ==
  IF s = <<>> THEN <<e>>
  ELSE IF Head(s)[1] >= e[1] THEN <<Head(s)>> \o InsertDesc(e, Tail(s))
  ELSE <<e>> \o s

\* Array.prototype.sort((a, b) => b.key - a.key), which is stable.
RECURSIVE SortDesc(_)
SortDesc(s) ==
  IF s = <<>> THEN <<>>
  ELSE InsertDesc(s[Len(s)], SortDesc(SubSeq(s, 1, Len(s) - 1)))

\* The transactions query: the user's rows of type 'send' in the window, by
\* amount in descending order (rows of one amount in the order stored).
SummaryTxData(u, d) ==
  LET rows == SelectSeq(transactions,
                        LAMBDA t : t.user_id = u /\ t.type = "send"
                                   /\ t.date >= d - SummaryDays)
      sorted == SortDesc([i \in 1..Len(rows) |-> <<rows[i].amount, rows[i]>>])
  IN [i \in 1..Len(sorted) |-> sorted[i][2]]

\* const name = tx.recipient_name || 'Unknown'
RecipientKey(tx) ==
  IF tx.recipient_name = {} THEN "Unknown" ELSE Some(tx.recipient_name)

\* The keys of byRecipient in the order they were first set.
RECURSIVE RecipientKeys(_)
RecipientKeys(txData) ==
  IF txData = <<>> THEN <<>>
  ELSE LET front == RecipientKeys(SubSeq(txData, 1, Len(txData) - 1))
           name == RecipientKey(txData[Len(txData)])
       IN IF \E i \in 1..Len(front) : front[i] = name THEN front
          ELSE Append(front, name)

\* byRecipient[name].total
RECURSIVE RecipientTotal(_, _)
RecipientTotal(txData, name) ==
  IF txData = <<>> THEN 0
  ELSE (IF RecipientKey(Head(txData)) = name THEN Head(txData).amount ELSE 0)
       + RecipientTotal(Tail(txData), name)

\* byRecipient[name].count
RecipientCount(txData, name) ==
  Len(SelectSeq(txData, LAMBDA t : RecipientKey(t) = name))

\* percentage: totalSpent > 0 ? Math.round((data.total / totalSpent) * 100) : 0
Percentage(total, totalSpent) ==
  IF totalSpent > 0 THEN RoundDiv(100 * total, totalSpent) ELSE 0

\* Mutant: the list of recipients is not cut.
SliceNone(s, n) == s

\* .slice(0, n)
Slice(s, n) == SubSeq(s, 1, IF Len(s) < n THEN Len(s) ELSE n)

\* topRecipients: the entries of byRecipient, sorted by total, the first five.
TopRecipients(txData, totalSpent) ==
  LET names == RecipientKeys(txData)
      entry(name) == [name |-> name,
                      total |-> RecipientTotal(txData, name),
                      count |-> RecipientCount(txData, name),
                      percentage |-> Percentage(RecipientTotal(txData, name),
                                                totalSpent)]
      sorted == SortDesc([i \in 1..Len(names) |->
                            <<entry(names[i]).total, entry(names[i])>>])
  IN Slice([i \in 1..Len(sorted) |-> sorted[i][2]], TopCount)

\* totalTransactions: the sum of transaction_count over dailyData.
RECURSIVE SumCounts(_)
SumCounts(rows) ==
  IF rows = {} THEN 0
  ELSE LET r == Some(rows) IN r.transaction_count + SumCounts(rows \ {r})

\* averagePerTransaction, in hundredths (the text of toFixed(2) without the point).
AveragePerTransaction(totalSpent, totalTransactions) ==
  IF totalTransactions > 0 THEN RoundDiv(100 * totalSpent, totalTransactions) ELSE 0

\* Math.round((spent / limit) * 100) for spent >= 0 and limit >= 0: x / 0 is
\* Infinity and 0 / 0 is NaN in JavaScript, and Math.round keeps both.
PercentUsed(spent, limit) ==
  IF limit # 0 THEN [kind |-> "finite", value |-> RoundDiv(100 * spent, limit)]
  ELSE IF spent = 0 THEN [kind |-> "NaN", value |-> 0]
  ELSE [kind |-> "Infinity", value |-> 0]

\* One entry of budget: limit, spent, remaining and percentUsed.
BudgetEntry(limit, spent) ==
  [limit |-> limit,
   spent |-> spent,
   remaining |-> IF limit - spent > 0 THEN limit - spent ELSE 0,
   percentUsed |-> PercentUsed(spent, limit)]

\* The object getSpendingSummary returns.
Summary(r, weekSpent) ==
  LET totalSpent == SumTotals(r.dailyData)
      totalTransactions == SumCounts(r.dailyData)
      policy == Some(r.policy)
  IN [totalSpent |-> totalSpent,
      totalTransactions |-> totalTransactions,
      averagePerTransaction |-> AveragePerTransaction(totalSpent, totalTransactions),
      topRecipients |-> TopRecipients(r.txData, totalSpent),
      budget |-> [daily |-> BudgetEntry(policy.daily_spending_limit, r.todaySpent),
                  weekly |-> BudgetEntry(policy.weekly_spending_limit, weekSpent)]]

\* The catch block rethrows: the call ends without a summary.
SummaryThrow(r) == [r EXCEPT !.pc = "done", !.response = "threw"]

\* A call getSpendingSummary(u) with the default window.
SummaryStart(p) ==
  /\ req[p].pc = "idle"
  /\ \E u \in Users :
       req' = [req EXCEPT ![p] = [NewReq EXCEPT !.op = "summary", !.pc = "sum_daily",
                                                !.user = u]]
  /\ UNCHANGED rateVars
  /\ UNCHANGED <<user_policies, trusted_contacts, daily_spending, alerts,
                 transactions, today, faultsLeft>>

\* The daily_spending query; dailyError is thrown.
SummaryDaily(p) ==
  LET r == req[p] IN
  /\ r.pc = "sum_daily"
  /\ \/ NoFault /\
        req' = [req EXCEPT ![p] =
                  [r EXCEPT !.dailyData = {d \in daily_spending :
                                             /\ d.user_id = r.user
                                             /\ d.date >= today - SummaryDays},
                            !.pc = "sum_tx"]]
     \/ Fault /\ req' = [req EXCEPT ![p] = SummaryThrow(r)]
  /\ UNCHANGED rateVars
  /\ UNCHANGED <<user_policies, trusted_contacts, daily_spending, alerts,
                 transactions, today>>

\* The transactions query; txError is thrown.
SummaryTx(p) ==
  LET r == req[p] IN
  /\ r.pc = "sum_tx"
  /\ \/ NoFault /\
        req' = [req EXCEPT ![p] = [r EXCEPT !.txData = SummaryTxData(r.user, today),
                                            !.pc = "sum_pol_select"]]
     \/ Fault /\ req' = [req EXCEPT ![p] = SummaryThrow(r)]
  /\ UNCHANGED rateVars
  /\ UNCHANGED <<user_policies, trusted_contacts, daily_spending, alerts,
                 transactions, today>>

\* getUserPolicy's select inside getSpendingSummary.
SummaryPolicySelect(p) ==
  LET r == req[p] IN
  /\ r.pc = "sum_pol_select"
  /\ \/ /\ PolicyRows(r.user) # {}
        /\ NoFault
        /\ req' = [req EXCEPT ![p] = [r EXCEPT !.policy = PolicyRows(r.user),
                                               !.pc = "sum_today"]]
     \/ /\ PolicyRows(r.user) = {}
        /\ NoFault
        /\ req' = [req EXCEPT ![p] = [r EXCEPT !.pc = "sum_pol_insert"]]
     \/ /\ Fault
        /\ req' = [req EXCEPT ![p] = SummaryThrow([r EXCEPT !.policyErr = TRUE])]
  /\ UNCHANGED rateVars
  /\ UNCHANGED <<user_policies, trusted_contacts, daily_spending, alerts,
                 transactions, today>>

\* getUserPolicy's insert inside getSpendingSummary.
SummaryPolicyInsert(p) ==
  LET r == req[p] IN
  /\ r.pc = "sum_pol_insert"
  /\ \/ /\ PolicyRows(r.user) = {}
        /\ NoFault
        /\ user_policies' = user_policies \cup {DefaultPolicy(r.user)}
        /\ req' = [req EXCEPT ![p] = [r EXCEPT !.policy = {DefaultPolicy(r.user)},
                                               !.pc = "sum_today"]]
     \/ /\ (PolicyRows(r.user) # {} /\ NoFault) \/ Fault
        /\ UNCHANGED user_policies
        /\ req' = [req EXCEPT ![p] = SummaryThrow([r EXCEPT !.policyErr = TRUE])]
  /\ UNCHANGED rateVars
  /\ UNCHANGED <<trusted_contacts, daily_spending, alerts, transactions, today>>

\* getTodaySpending inside getSpendingSummary (0 on an error).
SummaryToday(p) ==
  LET r == req[p] IN
  /\ r.pc = "sum_today"
  /\ \/ NoFault /\
        req' = [req EXCEPT ![p] = [r EXCEPT !.todaySpent = TodayTotal(r.user, today),
                                            !.pc = "sum_week"]]
     \/ Fault /\
        req' = [req EXCEPT ![p] = [r EXCEPT !.todaySpent = 0, !.todayErr = TRUE,
                                            !.pc = "sum_week"]]
  /\ UNCHANGED rateVars
  /\ UNCHANGED <<user_policies, trusted_contacts, daily_spending, alerts,
                 transactions, today>>

\* getWeekSpending (0 on an error), then the summary is built and returned.
SummaryWeek(p) ==
  LET r == req[p] IN
  /\ r.pc = "sum_week"
  /\ \/ NoFault /\
        req' = [req EXCEPT ![p] =
                  [r EXCEPT !.weekSpent = WeekTotal(r.user, today),
                            !.summary = {Summary(r, WeekTotal(r.user, today))},
                            !.pc = "done", !.response = "returned"]]
     \/ Fault /\
        req' = [req EXCEPT ![p] =
                  [r EXCEPT !.weekSpent = 0, !.weekErr = TRUE,
                            !.summary = {Summary(r, 0)},
                            !.pc = "done", !.response = "returned"]]
  /\ UNCHANGED rateVars
  /\ UNCHANGED <<user_policies, trusted_contacts, daily_spending, alerts,
                 transactions, today>>

NextSummary ==
  \/ SummaryStart(1)
  \/ SummaryDaily(1)
  \/ SummaryTx(1)
  \/ SummaryPolicySelect(1)
  \/ SummaryPolicyInsert(1)
  \/ SummaryToday(1)
  \/ SummaryWeek(1)

\* The stored states of the budget part: any policy (limits of 0 included) or
\* none yet, a record for today and one for the day before.
InitBudget ==
  /\ today = StartDay
  /\ faultsLeft = MaxFaults
  /\ user_policies \in PolicyStates("u1")
  /\ trusted_contacts = {}
  /\ \E a \in DailyStates("u1", StartDay), b \in DailyStates("u1", StartDay - 1) :
       daily_spending = a \cup b
  /\ alerts = {}
  /\ transactions = <<>>
  /\ req = [p \in Procs |-> NewReq]
  /\ RateInit

SpecBudget == InitBudget /\ [][NextSummary]_vars


\* ------------------------------- specification of one getSpendingSummary call
RecipientNames == <<"r1", "r2", "r3", "r4", "r5", "r6">>

\* A row of transactions as logTransactionWithDetails stores it.
LogRow(u, type, name, amount, status, d) ==
  [user_id |-> u, type |-> type, amount |-> amount, recipient_name |-> name,
   status |-> status, date |-> d]

\* Further rows of the log: a second transfer to the first recipient, a
\* failed transfer without a recipient name, a transfer before the window,
\* and an incoming transfer.
SummaryExtras ==
  {<<>>,
   <<LogRow("u1", "send", {"r1"}, MaxMoney, "completed", StartDay)>>,
   <<LogRow("u1", "send", {}, 1, "failed", StartDay)>>,
   <<LogRow("u1", "send", {"r1"}, 1, "completed", StartDay - SummaryDays - 1)>>,
   <<LogRow("u1", "receive", {"r1"}, 1, "completed", StartDay)>>}

\* The log holds one transfer to each of the first n recipients, of any
\* amounts, and one of the further rows; the ledger holds any record for today.
InitSummary ==
  /\ today = StartDay
  /\ faultsLeft = MaxFaults
  /\ user_policies \in SendPolicyStates("u1")
  /\ trusted_contacts = {}
  /\ daily_spending \in DailyStates("u1", StartDay)
  /\ alerts = {}
  /\ \E n \in 0..Len(RecipientNames) :
       \E amount \in [1..n -> Amounts], extra \in SummaryExtras :
         transactions =
           [i \in 1..n |-> LogRow("u1", "send", {RecipientNames[i]}, amount[i],
                                  "completed", StartDay)] \o extra
  /\ req = [p \in Procs |-> NewReq]
  /\ RateInit

SpecSummary == InitSummary /\ [][NextSummary]_vars


\* ---------------------------------------- specification of rateLimitByPhone
\* The clock advances by half a window at a time.
TickMs == RATE_LIMIT_WINDOW \div 2

\* Time passes; the requests counted at the current instant become those of
\* the instant before.
Tick ==
  /\ now < MaxTicks * TickMs
  /\ now' = now + TickMs
  /\ admitted' = [phone \in RatePhones |->
                    [prev |-> admitted[phone].cur, cur |-> 0,
                     last |-> admitted[phone].last]]
  /\ UNCHANGED <<user_policies, trusted_contacts, daily_spending, alerts,
                 transactions, today, faultsLeft, req, requestCounts>>

\* next(): the request goes on to the route handler.
RateNext(phone) ==
  admitted' = [admitted EXCEPT ![phone].cur = @ + 1, ![phone].last = "next"]

\* res.status(429): the request is answered by the middleware.
RateReject(phone) ==
  admitted' = [admitted EXCEPT ![phone].last = "429"]

\* One request with req.body.phone = phone passing through rateLimitByPhone.
RateLimitByPhone(phone) ==
  /\ \/ /\ requestCounts[phone] = {}
        /\ requestCounts' = [requestCounts EXCEPT
                               ![phone] = {[count |-> 1, windowStart |-> now]}]
        /\ RateNext(phone)
     \/ /\ requestCounts[phone] # {}
        /\ LET record == Some(requestCounts[phone]) IN
           IF now - record.windowStart > RATE_LIMIT_WINDOW
           THEN /\ requestCounts' = [requestCounts EXCEPT
                                       ![phone] = {[count |-> 1, windowStart |-> now]}]
                /\ RateNext(phone)
           ELSE IF record.count >= MAX_REQUESTS_PER_WINDOW
           THEN /\ UNCHANGED requestCounts
                /\ RateReject(phone)
           ELSE /\ requestCounts' = [requestCounts EXCEPT
                                       ![phone] = {[record EXCEPT !.count = @ + 1]}]
                /\ RateNext(phone)
  /\ UNCHANGED <<user_policies, trusted_contacts, daily_spending, alerts,
                 transactions, today, faultsLeft, req, now>>


InitRate ==
  /\ today = StartDay
  /\ faultsLeft = MaxFaults
  /\ user_policies = {}
  /\ trusted_contacts = {}
  /\ daily_spending = {}
  /\ alerts = {}
  /\ transactions = <<>>
  /\ req = [p \in Procs |-> NewReq]
  /\ RateInit

NextRate ==
  \/ Tick
  \/ \E phone \in RatePhones : RateLimitByPhone(phone)

SpecRate == InitRate /\ [][NextRate]_vars


\* ------------------------- specification of concurrent low-balance checks
\* A call checkLowBalanceAlert(u, balance) made at any time; `seen` is the
\* number of the user's low_balance alerts of today stored when it is made.
LowBalanceCall(p) ==
  /\ req[p].pc = "idle"
  /\ \E u \in Users, b \in Money :
       req' = [req EXCEPT ![p] =
                 [NewReq EXCEPT !.op = "lowBalance", !.pc = "lb_pol_select",
                                !.user = u, !.balance = {b},
                                !.seen = Cardinality(LowBalanceAlerts(u, today))]]
  /\ UNCHANGED rateVars
  /\ UNCHANGED <<user_policies, trusted_contacts, daily_spending, alerts,
                 transactions, today, faultsLeft>>

NextAlertCalls ==
  \E p \in Procs :
    \/ LowBalanceCall(p)
    \/ LowBalancePolicySelect(p)
    \/ LowBalancePolicyInsert(p)
    \/ LowBalanceAlertSelect(p)
    \/ LowBalanceAlertInsert(p)

SpecAlertCalls == InitAlert /\ [][NextAlertCalls]_vars


\* ------------------------------------ specification of the /policy route
PolicyProcs == {1, 2}

\* allowedFields
PolicyFields ==
  {"auto_approve_limit", "daily_spending_limit", "weekly_spending_limit",
   "low_balance_alert_threshold"}

\* What parseFloat makes of a value sent by the caller: any number, a
\* negative one included.
UpdateValues == {-1, MaxMoney}

\* req.body.updates: none, or a value for one of the allowed fields.
PolicyUpdates ==
  {{}} \cup {{<<f, v>>} : f \in PolicyFields, v \in UpdateValues}

\* The row the upsert leaves: the stored row, or the defaults of a new row,
\* with the columns named in updates set to the values given.
Upserted(u, updates) ==
  LET base == Some(PolicyOf(u)) IN
  [f \in DOMAIN base |->
     IF \E x \in updates : x[1] = f
     THEN (CHOOSE x \in updates : x[1] = f)[2]
     ELSE base[f]]

\* A request to /policy of a known user: with updates the handler goes to
\* updateUserPolicy, without to getUserPolicy.
PolicyRouteStart(p) ==
  /\ req[p].pc = "idle"
  /\ \E u \in Users, updates \in PolicyUpdates :
       req' = [req EXCEPT ![p] =
                 [NewReq EXCEPT !.op = "policy", !.user = u, !.updates = updates,
                                !.pc = IF updates # {} THEN "pol_upsert"
                                       ELSE "pol_select"]]
  /\ UNCHANGED rateVars
  /\ UNCHANGED <<user_policies, trusted_contacts, daily_spending, alerts,
                 transactions, today, faultsLeft>>

\* updateUserPolicy: the upsert on user_id; an error is thrown and the
\* route answers 500.
PolicyUpsert(p) ==
  LET r == req[p] IN
  /\ r.pc = "pol_upsert"
  /\ \/ /\ NoFault
        /\ user_policies' = (user_policies \ PolicyRows(r.user))
                              \cup {Upserted(r.user, r.updates)}
        /\ req' = [req EXCEPT ![p] = [r EXCEPT !.policy = {Upserted(r.user, r.updates)},
                                               !.pc = "done"]]
     \/ /\ Fault
        /\ UNCHANGED user_policies
        /\ req' = [req EXCEPT ![p] = [r EXCEPT !.policyErr = TRUE, !.pc = "done"]]
  /\ UNCHANGED rateVars
  /\ UNCHANGED <<trusted_contacts, daily_spending, alerts, transactions, today>>

NextPolicyRoute ==
  \E p \in PolicyProcs :
    \/ PolicyRouteStart(p)
    \/ PolicyUpsert(p)
    \/ GetPolicySelect(p)
    \/ GetPolicyInsert(p)

SpecPolicyRoute == InitPolicy /\ [][NextPolicyRoute]_vars


\* ----------------- specification of /send requests on an empty ledger and log
\* No spend has been recorded and no transaction logged yet.
InitSendFresh ==
  /\ today = StartDay
  /\ faultsLeft = MaxFaults
  /\ user_policies \in SendPolicyStates("u1")
  /\ trusted_contacts \in SendTrustStates("u1", "c1")
  /\ daily_spending = {}
  /\ alerts = {}
  /\ transactions = <<>>
  /\ req = [p \in Procs |-> NewReq]
  /\ RateInit

SpecSendFresh == InitSendFresh /\ [][NextSend]_vars


\* ------------------------------------ specification of the /alerts route
\* A request to /alerts of a known user.
AlertsStart(p) ==
  /\ req[p].pc = "idle"
  /\ \E u \in Users, m \in BOOLEAN :
       req' = [req EXCEPT ![p] = [NewReq EXCEPT !.op = "alerts", !.pc = "alerts_read",
                                                !.user = u, !.markAsRead = m]]
  /\ UNCHANGED rateVars
  /\ UNCHANGED <<user_policies, trusted_contacts, daily_spending, alerts,
                 transactions, today, faultsLeft>>

\* What a successful getUnreadAlerts returns (by id).
UnreadAlerts(u) == {a.id : a \in {b \in alerts : b.user_id = u /\ ~b.is_read}}

\* Where the handler goes with the alerts it read: to markAlertsAsRead(user.id)
\* when markAsRead is set and there is an alert, else to the answer.  The
\* answer lists the alerts read here.
AfterAlertsRead(r, found) ==
  [r EXCEPT !.returned = found,
            !.pc = IF r.markAsRead /\ found # {} THEN "mark_update" ELSE "done"]

\* getUnreadAlerts: the user's unread alerts, [] on an error.
AlertsRead(p) ==
  LET r == req[p] IN
  /\ r.pc = "alerts_read"
  /\ \/ NoFault /\ req' = [req EXCEPT ![p] = AfterAlertsRead(r, UnreadAlerts(r.user))]
     \/ Fault /\ req' = [req EXCEPT ![p] = AfterAlertsRead(r, {})]
  /\ UNCHANGED rateVars
  /\ UNCHANGED <<user_policies, trusted_contacts, daily_spending, alerts,
                 transactions, today>>

\* /circle-webhook for a completed inbound transaction of a known wallet.
WebhookStart(p) ==
  /\ req[p].pc = "idle"
  /\ \E u \in Users, a \in Amounts :
       req' = [req EXCEPT ![p] = [NewReq EXCEPT !.op = "webhook", !.pc = "wh_log",
                                                !.user = u, !.amount = a]]
  /\ UNCHANGED rateVars
  /\ UNCHANGED <<user_policies, trusted_contacts, daily_spending, alerts,
                 transactions, today, faultsLeft>>

\* The webhook logs the incoming transaction; an error ends the handler.
WebhookLog(p) ==
  LET r == req[p] IN
  /\ r.pc = "wh_log"
  /\ \/ /\ NoFault
        /\ transactions' = Append(transactions,
                                  [user_id |-> r.user, type |-> "receive",
                                   amount |-> r.amount, recipient_name |-> {"External"},
                                   status |-> "completed", date |-> today])
        /\ req' = [req EXCEPT ![p] = [r EXCEPT !.pc = "wh_alert"]]
     \/ /\ Fault
        /\ UNCHANGED transactions
        /\ req' = [req EXCEPT ![p] = [r EXCEPT !.pc = "done", !.response = "error500"]]
  /\ UNCHANGED rateVars
  /\ UNCHANGED <<user_policies, trusted_contacts, daily_spending, alerts, today>>

\* createAlert(user.id, 'deposit_received', ...): a plain insert.
WebhookAlert(p) ==
  LET r == req[p] IN
  /\ r.pc = "wh_alert"
  /\ \/ /\ NoFault
        /\ alerts' = alerts \cup
             {[id |-> Cardinality(alerts) + 1, user_id |-> r.user,
               alert_type |-> "deposit_received", is_read |-> FALSE,
               created_at |-> today]}
        /\ req' = [req EXCEPT ![p] = [r EXCEPT !.pc = "done"]]
     \/ /\ Fault
        /\ UNCHANGED alerts
        /\ req' = [req EXCEPT ![p] = [r EXCEPT !.pc = "done", !.response = "error500"]]
  /\ UNCHANGED rateVars
  /\ UNCHANGED <<user_policies, trusted_contacts, daily_spending, transactions, today>>

InitAlertsRoute ==
  /\ today = StartDay
  /\ faultsLeft = MaxFaults
  /\ user_policies = {}
  /\ trusted_contacts = {}
  /\ daily_spending = {}
  /\ alerts = {}
  /\ transactions = <<>>
  /\ req = [p \in Procs |-> NewReq]
  /\ RateInit

NextAlertsRoute ==
  \E p \in Procs :
    \/ AlertsStart(p)
    \/ AlertsRead(p)
    \/ MarkRead(p)
    \/ WebhookStart(p)
    \/ WebhookLog(p)
    \/ WebhookAlert(p)

SpecAlertsRoute == InitAlertsRoute /\ [][NextAlertsRoute]_vars


\* ------------------------------- specification of operations of two users
IsoProcs == {1, 2}

\* One call made for user u: recordSpend, trust add or remove, a policy
\* update, a low-balance check (which creates an alert), markRead, or a
\* decision.
IsoCalls(u) ==
  {[NewReq EXCEPT !.op = "recordSpend", !.pc = "upd_read", !.user = u, !.amount = a] :
     a \in Amounts}
  \cup {[NewReq EXCEPT !.op = "trustAdd", !.pc = "trust_add", !.user = u],
        [NewReq EXCEPT !.op = "trustRemove", !.pc = "trust_remove", !.user = u],
        [NewReq EXCEPT !.op = "policy", !.pc = "pol_upsert", !.user = u,
                       !.updates = {<<"daily_spending_limit", 1>>}],
        [NewReq EXCEPT !.op = "lowBalance", !.pc = "lb_pol_select", !.user = u,
                       !.balance = {0}]}
  \cup {[NewReq EXCEPT !.op = "markRead", !.pc = "mark_update", !.user = u, !.ids = l] :
          l \in {{}, {{1, 2}}}}
  \cup {[NewReq EXCEPT !.op = "check", !.pc = "chk_pol_select", !.user = u, !.amount = a] :
          a \in Amounts}

IsoStart(p) ==
  /\ req[p].pc = "idle"
  /\ \E u \in AlertUsers :
       \E call \in IsoCalls(u) : req' = [req EXCEPT ![p] = call]
  /\ UNCHANGED rateVars
  /\ UNCHANGED <<user_policies, trusted_contacts, daily_spending, alerts,
                 transactions, today, faultsLeft>>

\* u1 has a stored policy or none yet, a trust entry for c1 or none, and a
\* record for today or none; u2 has all three; each has one unread alert.
InitIso ==
  /\ today = StartDay
  /\ faultsLeft = MaxFaults
  /\ \E a \in SendPolicyStates("u1"), b \in SendPolicyStates("u2") \ {{}} :
       user_policies = a \cup b
  /\ \E a \in SendTrustStates("u1", "c1"), b \in SendTrustStates("u2", "c1") \ {{}} :
       trusted_contacts = {TrustRow(0, x.user_id, x.contact_id, x.auto_approve_limit) :
                             x \in a \cup b}
  /\ \E a \in DailyStates("u1", StartDay) :
       daily_spending = a \cup {DailyRow("u2", StartDay, 1)}
  /\ alerts = {AlertRow(1, "u1", FALSE), AlertRow(2, "u2", FALSE)}
  /\ transactions = <<>>
  /\ req = [p \in Procs |-> NewReq]
  /\ RateInit

NextIso ==
  \E p \in IsoProcs :
    \/ IsoStart(p)
    \/ UpdRead(p)
    \/ UpdWrite(p)
    \/ TrustAdd(p)
    \/ TrustRemove(p)
    \/ PolicyUpsert(p)
    \/ LowBalancePolicySelect(p)
    \/ LowBalancePolicyInsert(p)
    \/ LowBalanceAlertSelect(p)
    \/ LowBalanceAlertInsert(p)
    \/ MarkRead(p)
    \/ CheckPolicySelect(p)
    \/ CheckPolicyInsert(p)
    \/ CheckTrust(p)
    \/ CheckToday(p)
    \/ CheckWeek(p)

SpecIso == InitIso /\ [][NextIso]_vars

\* ================================================================ claims
Decided(r) == r.decision # {}

\* The decision was computed by the decision logic (the policy was read).
NormalPath(r) == r.decision # {} /\ ~r.policyErr /\ r.policy # {}

\* C2: whenever the spend the engine obtained for today plus the amount is
\* above the policy's daily limit, the decision is Blocked with the daily
\* reason and is not an auto-approval, whatever the trust entry says.
C2_DailyLimitDominates ==
  \A p \in Procs :
    LET r == req[p] IN
    (NormalPath(r) /\ r.todaySpent + r.amount > Some(r.policy).daily_spending_limit)
      => /\ Some(r.decision).budgetExceeded = "daily"
         /\ ~Some(r.decision).canAutoApprove

\* C2 witness: a trusted contact whose override covers the amount is blocked
\* by the daily limit.
C2_Witness ==
  \E p \in Procs :
    LET r == req[p] IN
    /\ NormalPath(r)
    /\ r.trusted # {}
    /\ Truthy(Some(r.trusted).auto_approve_limit)
    /\ r.amount <= Some(Some(r.trusted).auto_approve_limit)
    /\ r.todaySpent + r.amount > Some(r.policy).daily_spending_limit
    /\ Some(r.decision).budgetExceeded = "daily"

\* C3: first match wins: with the daily test passed and the weekly test
\* failed the decision is Blocked with the weekly reason whatever the trust;
\* with both tests failed the reason is the daily one.
C3_FixedOrder ==
  \A p \in Procs :
    LET r == req[p] IN
    NormalPath(r) =>
      LET pol == Some(r.policy)
          overDay == r.todaySpent + r.amount > pol.daily_spending_limit
          overWeek == r.weekSpent + r.amount > pol.weekly_spending_limit
          d == Some(r.decision)
      IN /\ (~overDay /\ overWeek) =>
              (d.budgetExceeded = "weekly" /\ d.reason = "weekly_limit_exceeded"
               /\ ~d.canAutoApprove)
         /\ (overDay /\ overWeek) =>
              (d.budgetExceeded = "daily" /\ d.reason = "daily_limit_exceeded")

\* C3 witness: both limits would be exceeded for a trusted contact and the
\* decision names the daily one.
C3_Witness ==
  \E p \in Procs :
    LET r == req[p] IN
    /\ NormalPath(r)
    /\ r.trusted # {}
    /\ r.todaySpent + r.amount > Some(r.policy).daily_spending_limit
    /\ r.weekSpent + r.amount > Some(r.policy).weekly_spending_limit
    /\ Some(r.decision).budgetExceeded = "daily"

\* C4: with no trust entry stored for the pair the decision is never an
\* auto-approval, and when both budget tests pass it is RequiresConfirmation
\* with the not-trusted reason.
C4_UntrustedNeverAutoApproved ==
  \A p \in Procs :
    LET r == req[p] IN
    (NormalPath(r) /\ r.storedTrust = {}) =>
      LET d == Some(r.decision) IN
      /\ ~d.canAutoApprove
      /\ d.budgetExceeded = "none" =>
           (d.requiresConfirmation /\ d.reason = "not_trusted")

\* C4 witness: an untrusted contact, an amount within the policy's
\* auto-approve limit, both budget tests passed.
C4_Witness ==
  \E p \in Procs :
    LET r == req[p] IN
    /\ NormalPath(r)
    /\ r.storedTrust = {}
    /\ ~r.trustErr
    /\ r.amount <= Some(r.policy).auto_approve_limit
    /\ Some(r.decision).reason = "not_trusted"

\* C5 (as claimed): for a trusted contact past both budget tests the decision
\* is AutoApproved exactly when amount <= effectiveLimit, the override
\* whenever one is present (0 included), else the policy's limit.
C5_OverrideWhenPresent ==
  \A p \in Procs :
    LET r == req[p] IN
    (NormalPath(r) /\ r.trusted # {} /\ Some(r.decision).budgetExceeded = "none") =>
      LET o == Some(r.trusted).auto_approve_limit
          limit == IF o # {} THEN Some(o) ELSE Some(r.policy).auto_approve_limit
          d == Some(r.decision)
      IN /\ d.canAutoApprove <=> r.amount <= limit
         /\ ~d.canAutoApprove =>
              (d.requiresConfirmation /\ d.reason = "exceeds_auto_approve_limit")

\* C6 (as claimed): when the policy read or the trust read returned a storage
\* error, the decision is the fail-closed one (RequiresConfirmation, reason
\* could-not-verify).
C6_ReadFailureFailsClosed ==
  \A p \in Procs :
    LET r == req[p] IN
    (Decided(r) /\ (r.policyErr \/ r.trustErr)) => Some(r.decision) = FailClosed

\* The transfer is over a limit given what the ledger and the policy held
\* when the engine evaluated it.
OverBudget(r) ==
  \/ r.ledgerToday + r.amount > Some(r.storedPolicy).daily_spending_limit
  \/ r.ledgerWeek + r.amount > Some(r.storedPolicy).weekly_spending_limit

\* C7 (as claimed): when the read of today's or of the week's spend returned
\* a storage error, the decision is not an auto-approval, and a transfer that
\* is over budget by the ledger's totals is returned Blocked.
C7_BudgetReadFailureNeverApproves ==
  \A p \in Procs :
    LET r == req[p] IN
    (Decided(r) /\ (r.todayErr \/ r.weekErr)) =>
      /\ ~Some(r.decision).canAutoApprove
      /\ OverBudget(r) => Some(r.decision).budgetExceeded # "none"

\* C1 (as claimed): once N concurrent calls of amount 1 for one user and day
\* have all completed, with no storage error, the day's record has
\* totalSpent = N and transactionCount = N.
C1_NoLostUpdate ==
  LET calls == {p \in Procs : req[p].op = "recordSpend"} IN
  (/\ calls # {}
   /\ \A p \in Procs : req[p].pc \in {"idle", "done"}
   /\ \A p \in calls : req[p].amount = 1 /\ ~req[p].writeErr /\ req[p].user = "u1")
  => /\ DailyRows("u1", today) # {}
     /\ Some(DailyRows("u1", today)).total_spent = Cardinality(calls)
     /\ Some(DailyRows("u1", today)).transaction_count = Cardinality(calls)

\* C8 (as claimed): a /send request with confirmed = true whose amount is
\* over the daily or the weekly limit, by what the ledger and the policy
\* held when it was evaluated, never reaches the external transfer.
C8_ConfirmationNeverBypassesBudget ==
  \A p \in Procs :
    LET r == req[p] IN
    (r.op = "send" /\ r.confirmed /\ Decided(r) /\ OverBudget(r))
      => (r.txResult = "none" /\ r.pc # "transfer")

CommitPcs ==
  {"upd_read", "upd_write", "log_completed", "lb_pol_select", "lb_pol_insert",
   "lb_alert_select", "lb_alert_insert"}

\* C10: the handler reaches the ledger update and the low-balance check only
\* with a transfer that reported success, and every step of a request whose
\* transfer did not succeed (blocked, unconfirmed, rejected or failed)
\* leaves daily_spending and alerts unchanged.
C10_CommitOnlyAfterSuccess ==
  /\ [](\A p \in Procs :
          LET r == req[p] IN
          (r.op = "send" /\ (r.pc \in CommitPcs \/ r.wrote \/ r.lowBalance # "none"))
            => r.txResult = "success")
  /\ [][\A p \in Procs :
          (req'[p] # req[p] /\ req'[p].txResult # "success")
            => (daily_spending' = daily_spending /\ alerts' = alerts)]_vars

\* C10 witness: one request's transfer failed and was logged as failed
\* without a ledger write, another's succeeded and was committed.
C10_Witness ==
  \E p, q \in Procs :
    /\ req[p].txResult = "failed" /\ req[p].response = "tx_failed" /\ ~req[p].wrote
    /\ req[q].txResult = "success" /\ req[q].wrote /\ req[q].lowBalance # "none"

\* C11 (as claimed): a recordSpend call that returned normally applied its
\* increment; a failed read, insert or update of the daily record never ends
\* in a normal return.
C11_StorageFailureSurfaced ==
  \A p \in Procs :
    LET r == req[p] IN
    (r.op = "recordSpend" /\ r.pc = "done") => r.wrote

\* C12 (as claimed): a recordSpend call with a negative amount never writes
\* the (user, date) record.
C12_InvalidAmountRejected ==
  \A p \in Procs :
    LET r == req[p] IN
    (r.op = "recordSpend" /\ r.amount < 0) => ~r.wrote

\* C13 (as claimed): the value a getWeekSpending call returned from its read
\* is the exact sum of the user's records dated from the Monday of the
\* current week up to today, hence at least each of these daily totals.
C13_WeekSpendExactSum ==
  \A p \in Procs :
    LET r == req[p] IN
    (r.op = "weekSpend" /\ r.pc = "done" /\ ~r.weekErr) =>
      LET week == {x \in daily_spending : /\ x.user_id = r.user
                                          /\ x.date >= WeekStart(today)
                                          /\ x.date <= today}
      IN /\ r.weekSpent = SumTotals(week)
         /\ \A x \in week : r.weekSpent >= x.total_spent

\* C14 (as claimed): every decision returned by checkAutoApproval, the one of
\* the storage-failure path included, carries a BudgetStatus whose remainders
\* are limit minus spend, the spend being the one read, without the amount.
C14_DecisionCarriesBudgetStatus ==
  \A p \in Procs :
    LET r == req[p] IN
    Decided(r) =>
      LET d == Some(r.decision) IN
      /\ d.budgetStatus # {}
      /\ LET b == Some(d.budgetStatus) IN
           /\ b.todaySpent = r.todaySpent
           /\ b.weekSpent = r.weekSpent
           /\ b.remainingToday = b.dailyLimit - b.todaySpent
           /\ b.remainingWeek = b.weeklyLimit - b.weekSpent

\* The sum of the amounts of the requests in ps.
RECURSIVE SumAmounts(_)
SumAmounts(ps) ==
  IF ps = {} THEN 0
  ELSE LET q == Some(ps) IN req[q].amount + SumAmounts(ps \ {q})

\* The /send requests of user u whose external transfer was executed.
Executed(u) ==
  {p \in Procs : req[p].op = "send" /\ req[p].user = u /\ req[p].txResult = "success"}

\* No read or write of request p returned a storage error.
NoStorageError(p) ==
  LET r == req[p] IN
  ~r.policyErr /\ ~r.trustErr /\ ~r.todayErr /\ ~r.weekErr /\ ~r.writeErr

\* C15 (as claimed): with every storage call succeeding, the amounts of the
\* transfers executed for a user within the day never add up to more than
\* the user's daily spending limit, whatever the interleaving of requests.
C15_DailyTotalWithinLimit ==
  (\A p \in Procs : NoStorageError(p)) =>
    \A u \in Users :
      SumAmounts(Executed(u)) <= Some(PolicyOf(u)).daily_spending_limit

\* C16 (as claimed): an add for a pair that is already trusted succeeds, and
\* the stored override limit is then the one passed in the call.
C16_AddReplaces ==
  \A p \in Procs :
    LET r == req[p] IN
    (r.op = "trustAdd" /\ r.pc = "done" /\ ~r.writeErr /\ r.storedTrust # {}) =>
      r.response = "added"

\* The completed add calls for the pair (u, c) with override limit l.
AddsDone(u, c, l) ==
  {p \in Procs : /\ req[p].op = "trustAdd" /\ req[p].pc = "done"
                 /\ req[p].user = u /\ req[p].contact = c /\ req[p].limit = l}

\* C17: there is never more than one trust entry for a (user, contact)
\* pair, and two completed adds of the pair with the same override limit,
\* with no storage error and no remove, leave exactly one entry.
C17_OneEntryPerPair ==
  \A u \in Users, c \in TrustContacts :
    /\ Cardinality(TrustRows(u, c)) <= 1
    /\ \A l \in TrustLimits :
         (/\ Cardinality(AddsDone(u, c, l)) >= 2
          /\ \A p \in Procs : req[p].op # "trustRemove" /\ ~req[p].writeErr)
         => Cardinality(TrustRows(u, c)) = 1

\* C17 witness: two concurrent adds of a pair that was not trusted, same
\* limit; one inserted the entry, the other was refused, one entry is stored.
C17_Witness ==
  \E p, q \in Procs :
    /\ p # q
    /\ req[p].op = "trustAdd" /\ req[q].op = "trustAdd"
    /\ req[p].contact = req[q].contact /\ req[p].limit = req[q].limit
    /\ req[p].response = "added" /\ req[p].storedTrust = {}
    /\ req[q].response = "error500" /\ ~req[q].writeErr
    /\ Cardinality(TrustRows(req[p].user, req[p].contact)) = 1

\* C18: a remove that meets no storage error succeeds whether or not an
\* entry exists, leaves no entry for the pair, leaves the entries of other
\* pairs as they were, and changes nothing when there was no entry.
C18_RemoveIdempotent ==
  [][\A p \in Procs :
       (req[p].pc = "trust_remove" /\ req'[p].pc = "done" /\ ~req'[p].writeErr) =>
         LET u == req[p].user
             c == req[p].contact
         IN /\ req'[p].response = "removed"
            /\ {x \in trusted_contacts' : x.user_id = u /\ x.contact_id = c} = {}
            /\ {x \in trusted_contacts' : ~(x.user_id = u /\ x.contact_id = c)}
                 = {x \in trusted_contacts : ~(x.user_id = u /\ x.contact_id = c)}
            /\ TrustRows(u, c) = {} => trusted_contacts' = trusted_contacts]_vars

\* C18 witness: one remove deleted the pair's entry, a second remove of the
\* same pair found none and succeeded, and another pair's entry is stored.
C18_Witness ==
  \E p, q \in Procs :
    /\ req[p].op = "trustRemove" /\ req[q].op = "trustRemove"
    /\ req[p].contact = req[q].contact
    /\ req[p].response = "removed" /\ req[p].storedTrust # {}
    /\ req[q].response = "removed" /\ req[q].storedTrust = {}
    /\ \E x \in trusted_contacts : x.contact_id # req[p].contact

\* The completed low-balance checks whose balance was at or below the
\* user's threshold.
LowCalls ==
  {p \in Procs : /\ req[p].op = "lowBalance" /\ req[p].pc = "done"
                 /\ Some(req[p].balance) <=
                      Some(PolicyOf(req[p].user)).low_balance_alert_threshold}

\* C19: while every storage call has succeeded, the low-balance checks made
\* one after the other within a day have created exactly one low_balance
\* alert as soon as one of them had the balance at or below the threshold
\* (none before), the first such check returned the alert and every other
\* check returned none.
C19_SequentialDedup ==
  faultsLeft = MaxFaults =>
    /\ Cardinality(LowBalanceAlerts("u1", today)) = (IF LowCalls = {} THEN 0 ELSE 1)
    /\ \A p \in Procs :
         (req[p].op = "lowBalance" /\ req[p].pc = "done") =>
           (req[p].lowBalance = "alert"
              <=> (p \in LowCalls /\ \A q \in LowCalls : q >= p))

\* C19 witness: every call of the day was made with a low balance; one
\* alert exists, returned by the first call, the later calls returned none.
C19_Witness ==
  /\ faultsLeft = MaxFaults
  /\ LowCalls = Procs
  /\ Cardinality(LowBalanceAlerts("u1", today)) = 1
  /\ req[1].lowBalance = "alert"
  /\ \A p \in Procs \ {1} : req[p].lowBalance = "null"

\* C20 (as claimed): while every storage call has succeeded, each completed
\* getUserPolicy call returned a policy, concurrent first accesses included,
\* and no user has more than one stored policy.
C20_PolicyAlwaysReturned ==
  /\ \A u \in Users : Cardinality(PolicyRows(u)) <= 1
  /\ faultsLeft = MaxFaults =>
       \A p \in Procs :
         (req[p].op = "getPolicy" /\ req[p].pc = "done") =>
           (req[p].policy # {} /\ ~req[p].policyErr)


\* C21: markRead(user, ids) with ids provided leaves every alert that is not
\* of that user or whose id is not in ids unchanged; markRead(user) without
\* ids leaves the other users' alerts unchanged and, when the update went
\* through, leaves none of the user's alerts unread; no step deletes an alert
\* or sets is_read back to false.
C21_MarkReadFrame ==
  [][\A p \in MarkProcs :
       (req[p].pc = "mark_update" /\ req'[p].pc = "done") =>
         /\ req[p].ids # {} =>
              \A a \in alerts :
                (a.user_id # req[p].user \/ a.id \notin Some(req[p].ids)) => a \in alerts'
         /\ req[p].ids = {} =>
              /\ \A a \in alerts : a.user_id # req[p].user => a \in alerts'
              /\ faultsLeft' = faultsLeft =>
                   \A b \in alerts' : b.user_id = req[p].user => b.is_read
         /\ \A a \in alerts :
              \E b \in alerts' : b.id = a.id /\ (a.is_read => b.is_read)]_vars


\* C22 (as claimed): whatever the limits, 0 included, and whatever was spent,
\* a summary that getSpendingSummary returns carries a defined percentUsed
\* for the day and for the week: the division by a limit of 0 is not made.
C22_PercentUsedDefined ==
  \A p \in Procs :
    LET r == req[p] IN
    (r.op = "summary" /\ r.summary # {}) =>
      /\ Some(r.summary).budget.daily.percentUsed.kind = "finite"
      /\ Some(r.summary).budget.weekly.percentUsed.kind = "finite"


\* The positions in the log of user u's outgoing transfers to `name` in the
\* window of the summary.
SentTo(u, name) ==
  {i \in DOMAIN transactions :
     /\ transactions[i].user_id = u /\ transactions[i].type = "send"
     /\ transactions[i].date >= today - 7
     /\ RecipientKey(transactions[i]) = name}

\* The sum of the amounts of the log rows at the positions in idx.
RECURSIVE SumLog(_)
SumLog(idx) ==
  IF idx = {} THEN 0
  ELSE LET i == Some(idx) IN transactions[i].amount + SumLog(idx \ {i})

\* C23: a summary that getSpendingSummary returns lists at most 5
\* counterparties, by total in descending order, each listed once with the
\* sum and the count of the user's outgoing transfers to it in the window;
\* every percentage is 0 when totalSpent is 0, and the average per
\* transaction is 0 when the transaction count is 0.
C23_TopRecipients ==
  \A p \in Procs :
    LET r == req[p] IN
    (r.op = "summary" /\ r.summary # {}) =>
      LET s == Some(r.summary)
          top == s.topRecipients
      IN /\ Len(top) <= 5
         /\ \A i, j \in 1..Len(top) :
              /\ i < j => top[i].total >= top[j].total
              /\ i # j => top[i].name # top[j].name
         /\ \A i \in 1..Len(top) :
              /\ SentTo(r.user, top[i].name) # {}
              /\ top[i].total = SumLog(SentTo(r.user, top[i].name))
              /\ top[i].count = Cardinality(SentTo(r.user, top[i].name))
              /\ s.totalSpent = 0 => top[i].percentage = 0
         /\ s.totalTransactions = 0 => s.averagePerTransaction = 0

\* A summary over a log with transfers to six counterparties, two of them to
\* the first: five are listed, the first with count 2.
C23_Witness ==
  \E p \in Procs :
    LET r == req[p] IN
    /\ r.op = "summary" /\ r.summary # {}
    /\ Len(transactions) = 7
    /\ Len(Some(r.summary).topRecipients) = 5
    /\ Some(r.summary).topRecipients[1].count = 2
    /\ Some(r.summary).totalSpent > 0


\* C24 (as claimed): for each phone, the requests the rate limiter passed on
\* to the route handlers at two instants half a minute apart, which lie
\* within one minute, are no more than 30.
C24_AtMostThirtyPerMinute ==
  \A phone \in RatePhones :
    admitted[phone].prev + admitted[phone].cur <= 30


\* C25 (as claimed): while every recordSpend call made has a non-negative
\* amount, no step lowers totalSpent or transactionCount of a stored
\* DailySpendingRecord or removes the record, whatever the interleaving.
C25_LedgerNeverDecreases ==
  [][(\A p \in Procs : req'[p].amount >= 0) =>
       \A d \in daily_spending :
         \E e \in daily_spending' :
           /\ e.user_id = d.user_id /\ e.date = d.date
           /\ e.total_spent >= d.total_spent
           /\ e.transaction_count >= d.transaction_count]_vars


\* C26 (as claimed): while every storage call has succeeded, a low-balance
\* check made when one or several low_balance alerts of the current day were
\* stored for the user returned none (it created no alert), and so did a
\* check whose balance was strictly above the threshold.
C26_NoAlertWhenOneExists ==
  faultsLeft = MaxFaults =>
    \A p \in Procs :
      LET r == req[p] IN
      (r.op = "lowBalance" /\ r.pc = "done") =>
        /\ r.seen >= 1 => r.lowBalance = "null"
        /\ Some(r.balance) > Some(PolicyOf(r.user)).low_balance_alert_threshold
             => r.lowBalance = "null"


\* C27 (as claimed): no step of a checkAutoApproval call, whether it goes on,
\* fails or is the last one made, changes the stored policies, trust entries,
\* daily spending records, alerts or transactions, also for a user that has
\* no stored policy yet.
C27_DecisionWritesNothing ==
  [][(\E p \in Procs : req[p].op = "check" \/ req'[p].op = "check") =>
       /\ user_policies' = user_policies
       /\ trusted_contacts' = trusted_contacts
       /\ daily_spending' = daily_spending
       /\ alerts' = alerts
       /\ transactions' = transactions]_vars


\* C28 (as claimed): in every reachable state the four limit fields of every
\* stored policy are non-negative numbers.
C28_LimitsNonNegative ==
  \A row \in user_policies :
    /\ row.auto_approve_limit >= 0
    /\ row.daily_spending_limit >= 0
    /\ row.weekly_spending_limit >= 0
    /\ row.low_balance_alert_threshold >= 0


\* C29 (as claimed): a /send request whose external transfer reported
\* success, and whose steps after the transfer all returned, is answered
\* with success: true, whichever decision allowed the transfer, the one of
\* checkAutoApproval's storage-failure path with confirmed = true included.
C29_SuccessAnswered ==
  \A p \in Procs :
    LET r == req[p] IN
    (r.op = "send" /\ r.pc = "done" /\ r.txResult = "success"
       /\ r.lowBalance # "none") =>
      r.response = "success"


\* The positions in the log of user u's 'send' transactions logged with
\* status completed on day d.
CompletedOn(u, d) ==
  {i \in DOMAIN transactions :
     /\ transactions[i].user_id = u /\ transactions[i].type = "send"
     /\ transactions[i].status = "completed" /\ transactions[i].date = d}

\* C30 (as claimed): whenever no /send request is in flight, for every user
\* the day's DailySpendingRecord has totalSpent equal to the sum of the
\* amounts, and transactionCount equal to the number, of the user's 'send'
\* transactions logged with status completed on that day (no record when
\* there is none), whatever transfers succeeded, failed or ran concurrently
\* and whatever storage call failed after a transfer.
C30_LedgerMatchesLog ==
  (\A p \in Procs : req[p].pc \in {"idle", "done"}) =>
    \A u \in Users :
      /\ TodayTotal(u, today) = SumLog(CompletedOn(u, today))
      /\ \A row \in DailyRows(u, today) :
           row.transaction_count = Cardinality(CompletedOn(u, today))


\* C31 (as claimed): every alert that the mark-read write of an /alerts
\* request with markAsRead = true turns from unread to read is among the
\* alerts that request read, and so is in its response.
C31_MarkedWereReturned ==
  [][\A p \in Procs :
       (req[p].op = "alerts" /\ req[p].pc = "mark_update" /\ req'[p].pc = "done") =>
         \A a \in alerts :
           (~a.is_read /\ a \notin alerts') => a.id \in req[p].returned]_vars


\* C32: every decision returned by checkAutoApproval has exactly one of
\* canAutoApprove and requiresConfirmation true, and canAutoApprove false
\* when budgetExceeded is set; the /send handler takes it as exactly one of
\* Blocked (budgetExceeded set), RequiresConfirmation and AutoApproved: it
\* blocks the first, asks an unconfirmed caller about the second, and goes
\* on to the transfer without asking only for the third.
C32_ExactlyOneOutcome ==
  \A p \in Procs :
    LET r == req[p] IN
    Decided(r) =>
      LET d == Some(r.decision)
          blocked == d.budgetExceeded # "none"
          asks == ~blocked /\ d.requiresConfirmation
          approved == ~blocked /\ d.canAutoApprove
      IN /\ d.canAutoApprove # d.requiresConfirmation
         /\ blocked => ~d.canAutoApprove
         /\ Cardinality({x \in {"b", "r", "a"} :
                           \/ x = "b" /\ blocked
                           \/ x = "r" /\ asks
                           \/ x = "a" /\ approved}) = 1
         /\ Classify(d, FALSE) = "blocked" <=> blocked
         /\ Classify(d, FALSE) = "needs_confirmation" <=> asks
         /\ Classify(d, FALSE) = "execute" <=> approved
         /\ Classify(d, TRUE) = "blocked" <=> blocked

\* A returned decision that is Blocked although the contact is trusted and
\* the amount is within the effective limit.
C32_Witness ==
  \E p \in Procs :
    LET r == req[p] IN
    /\ NormalPath(r)
    /\ Some(r.decision).budgetExceeded # "none"
    /\ r.trusted # {}
    /\ r.amount <= EffectiveLimit(Some(r.policy), Some(r.trusted))


\* The rows of a table that are not of user u.
NotOf(table, u) == {x \in table : x.user_id # u}

\* C33: a step of an operation made for user A (recordSpend, trust add or
\* remove, policy update, alert creation, markRead, a decision) leaves every
\* DailySpendingRecord, TrustEntry, PolicyConfig and Alert of every other
\* user unchanged; and a decision for user B made with every storage call
\* succeeding, while no other operation was made for B, is the decision
\* logic's result on B's own policy, trust entry and ledger records.
C33_PerUserIsolation ==
  /\ [][\A p \in Procs :
          req'[p] # req[p] =>
            LET a == req'[p].user IN
            /\ NotOf(daily_spending', a) = NotOf(daily_spending, a)
            /\ NotOf(trusted_contacts', a) = NotOf(trusted_contacts, a)
            /\ NotOf(user_policies', a) = NotOf(user_policies, a)
            /\ NotOf(alerts', a) = NotOf(alerts, a)]_vars
  /\ [](\A p \in Procs :
          LET r == req[p]
              b == r.user
              own(table) == {x \in table : x.user_id = b}
          IN (/\ r.op = "check" /\ r.pc = "done" /\ NoStorageError(p)
              /\ \A q \in Procs \ {p} : req[q].pc = "idle" \/ req[q].user # b)
             => Some(r.decision) =
                  Decide(Some(own(user_policies)),
                         {x \in own(trusted_contacts) : x.contact_id = r.contact},
                         SumTotals({x \in own(daily_spending) : x.date = today}),
                         SumTotals({x \in own(daily_spending) :
                                      x.date >= WeekStart(today)}),
                         r.amount))

\* A decision for u1 was returned after an operation for u2 changed u2's
\* ledger record, and u2's record differs from u1's.
C33_Witness ==
  \E p, q \in Procs :
    /\ req[p].op = "check" /\ req[p].pc = "done" /\ req[p].user = "u1"
    /\ NoStorageError(p)
    /\ req[q].op = "recordSpend" /\ req[q].pc = "done" /\ req[q].user = "u2"
    /\ req[q].wrote
    /\ TodayTotal("u2", today) # TodayTotal("u1", today)

====
